---------------------------- MODULE Spec2Model ----------------------------
(***************************************************************************)
(* Token-budgeted chunking and multi-round summarisation pipeline of the   *)
(* GitHub Guide Tool extension: the token estimator, the chunk planner,    *)
(* the round orchestrator and the background task registry.                *)
(*                                                                         *)
(* Texts are modelled by what the estimator reads of them: the number of   *)
(* UTF-16 units in U+4E00..U+9FFF (c) and the number of all other units    *)
(* (o).  Concatenation adds the counts.                                    *)
(***************************************************************************)
EXTENDS Integers, Sequences, FiniteSets, TLC

VARIABLES
  skeleton,      \* CodeSkeleton under analysis
  repoInfo,      \* RepoInfo of the repository (owner, repo, readme, ...)
  maxTokens,     \* token budget handed to the planner
  chunks,        \* AnalysisChunk[] returned by splitIntoChunks
  needs,         \* result of needsChunking
  rendered,      \* estimateTokens(formatSkeletonForAI(skeleton, repoInfo))
  planPc         \* "input" before the planner ran, "planned" after

VARIABLES
  activeTasks,   \* Map of taskId -> AnalysisTask of the background script
  lastSaveTimes, \* Map of taskId -> time of the last throttled save
  session,       \* chrome.storage.session under ANALYSIS_STATE_KEY
  timers,        \* pending setTimeout callbacks of scheduleTaskCleanup
  runs,          \* the runAnalysis invocations made so far, each with its locals
  now,           \* Date.now()
  reply          \* the last sendResponse of the message handler

VARIABLES
  input,         \* argument of the pure function under study
  output,        \* what the function returned for it
  purePc         \* "ready" before the function ran, "done" after

VARIABLES
  cache,         \* chrome.storage.local under CACHE_KEY: the CachedAnalysis entries, in key order
  cacheOps       \* the cacheAnalysis calls followed await by await, with their locals

planVars == <<skeleton, repoInfo, maxTokens, chunks, needs, rendered, planPc>>

taskVars == <<activeTasks, lastSaveTimes, session, timers, runs, now, reply>>

pureVars == <<input, output, purePc>>

cacheVars == <<cache, cacheOps>>

vars == <<planVars, taskVars, pureVars, cacheVars>>

(***************************************************************************)
(* Bounds of the model                                                     *)
(***************************************************************************)
MaxModules == 3
MaxStreamTokens == 2  \* tokens a streaming call delivers before it ends
MaxRuns == 4          \* analysis runs started in one behaviour
MaxTaskRuns == 2      \* the same, where every run may go all its way
MaxClockRuns == 1     \* the same, where the clock advances too
MaxPairRuns == 2      \* the same, for the beginnings of the runs with the clock
MaxBusy == 1          \* runs between their first await and their first backend call
MaxClock == 1700000   \* the clock stops advancing here
MaxBody == 3          \* pieces of a response body given to parseChunkSummary
MaxCacheOps == 2      \* cacheAnalysis calls followed await by await
MaxChars == 6         \* code points of each kind in a text given to estimateTokens

(***************************************************************************)
(* Texts                                                                   *)
(***************************************************************************)
Txt(cjk, other) == [c |-> cjk, o |-> other]
Empty == Txt(0, 0)
S(str) == Txt(0, Len(str))
a ++ b == Txt(a.c + b.c, a.o + b.o)
TLen(t) == t.c + t.o

\* The concatenation of the texts of a list (by halves, to keep the recursion shallow)
RECURSIVE Concat(_)
Concat(ts) ==
  IF Len(ts) = 0 THEN Empty
  ELSE IF Len(ts) = 1 THEN ts[1]
  ELSE LET h == Len(ts) \div 2
       IN  Concat(SubSeq(ts, 1, h)) ++ Concat(SubSeq(ts, h + 1, Len(ts)))

\* Array.prototype.join: the elements with `sep` between neighbours
Join(ts, sep) ==
  IF Len(ts) = 0 THEN Empty
  ELSE Concat(ts) ++ Txt(sep.c * (Len(ts) - 1), sep.o * (Len(ts) - 1))

NL == S("\n")
JoinLines(ls) == Join(ls, NL)

RECURSIVE Flatten(_)
Flatten(ss) == IF ss = <<>> THEN <<>> ELSE Head(ss) \o Flatten(Tail(ss))

RECURSIVE SumSeq(_)
SumSeq(ns) == IF ns = <<>> THEN 0 ELSE Head(ns) + SumSeq(Tail(ns))

Min(x, y) == IF x < y THEN x ELSE y

\* Number.prototype.toString of a non-negative integer
RECURSIVE Digits(_)
Digits(n) == IF n < 10 THEN 1 ELSE 1 + Digits(n \div 10)
NumStr(n) == Txt(0, Digits(n))

(***************************************************************************)
(* tokenEstimator.ts                                                       *)
(***************************************************************************)
\* A mutant: one flat rate of four units per token, rounded down
estimateTokensFloor(text) == (text.c + text.o) \div 4

\* Math.ceil(chineseChars / 1.5 + otherChars / 4) = ceil((8c + 3o) / 12)
estimateTokens(text) == (8 * text.c + 3 * text.o + 11) \div 12


(***************************************************************************)
(* Skeleton inputs.  A path is its sequence of segments; every other       *)
(* string field is a text.                                                 *)
(***************************************************************************)
NoText == [none |-> TRUE]
Has(t) == t # NoText /\ TLen(t) > 0      \* JavaScript truthiness of string | undefined

Fn(name, params, ret, exported, async) ==
  [name |-> name, params |-> params, returnType |-> ret,
   isExported |-> exported, isAsync |-> async]
Cls(name, ext, exported) == [name |-> name, extends |-> ext, isExported |-> exported]
Mod(path, classes, functions, exports) ==
  [path |-> path, classes |-> classes, functions |-> functions, exports |-> exports]

PathText(path) == Join([i \in 1..Len(path) |-> S(path[i])], S("/"))

\* The modules extractCodeSkeleton can produce: each has a function or a class
ModulePool ==
  { Mod(<<"src", "a.ts">>, <<>>,
        <<Fn(S("load"), S("id: string"), S("Promise<Item>"), TRUE, TRUE)>>, <<S("load")>>),
    Mod(<<"lib", "b.ts">>, <<Cls(S("Store"), S("Base"), TRUE)>>, <<>>, <<S("Store")>>),
    Mod(<<"src", "c.ts">>, <<Cls(S("View"), NoText, FALSE)>>,
        <<Fn(S("render"), Txt(0, 120), NoText, FALSE, FALSE),
          Fn(S("mount"), S("el"), S("void"), TRUE, FALSE)>>, <<>>),
    Mod(<<"main.ts">>, <<>>, <<Fn(S("main"), Empty, NoText, FALSE, TRUE)>>, <<>>),
    Mod(<<"src", "lib", "d.ts">>, <<>>,
        <<Fn(S("go"), Txt(2, 400), NoText, TRUE, FALSE)>>, <<S("x"), S("y")>>) }

\* Sequences of distinct modules (a path is the unique key of a record)
ModuleLists ==
  UNION { { q \in [1..n -> ModulePool] : \A i, j \in 1..n : q[i] = q[j] => i = j }
          : n \in 0..MaxModules }

(***************************************************************************)
(* chunker.ts: formatModuleForEstimation                                   *)
(***************************************************************************)
ClassLine(cls) ==
  S("  - ") ++ (IF cls.isExported THEN S("export ") ELSE Empty) ++ S("class ") ++ cls.name
  ++ (IF Has(cls.extends) THEN S(" extends ") ++ cls.extends ELSE Empty)

FunctionLine(fn) ==
  S("  - ") ++ (IF fn.isExported THEN S("export ") ELSE Empty)
  ++ (IF fn.isAsync THEN S("async ") ELSE Empty)
  ++ S("function ") ++ fn.name ++ S("(") ++ fn.params ++ S(")")
  ++ (IF Has(fn.returnType) THEN S(": ") ++ fn.returnType ELSE Empty)

\* The lines both module renderers push for one module (after its heading)
ModuleBodyLines(module) ==
  (IF Len(module.classes) > 0
     THEN <<S("Classes:")>> \o [i \in 1..Len(module.classes) |-> ClassLine(module.classes[i])]
     ELSE <<>>)
  \o (IF Len(module.functions) > 0
     THEN <<S("Functions:")>>
          \o [i \in 1..Len(module.functions) |-> FunctionLine(module.functions[i])]
     ELSE <<>>)
  \o (IF Len(module.exports) > 0
     THEN <<S("Exports: ") ++ Join(module.exports, S(", "))>>
     ELSE <<>>)

formatModuleForEstimation(module) ==
  JoinLines(<<S("### ") ++ PathText(module.path)>> \o ModuleBodyLines(module))

moduleTokens(module) == estimateTokens(formatModuleForEstimation(module))


(***************************************************************************)
(* chunker.ts: estimateBaseContextTokens, needsChunking, splitIntoChunks.  *)
(* readmeLength / 4 is a fraction, so the base estimate and every budget   *)
(* compared with it are carried in quarter tokens.                         *)
(***************************************************************************)
Quarters(tokens) == 4 * tokens

NoConfig == [none |-> TRUE]

depCount(sk) == Len(sk.dependencies.runtime) + Len(sk.dependencies.dev)

\* repoInfo.readme?.length || 0
readmeLengthOf(info) == TLen(info.readme)

\* A mutant: the README excerpt is left out of the estimate
estimateBaseContextTokensNoReadme(sk, readmeLength) ==
  Quarters(500 + Len(sk.modules) * 10
           + (IF sk.config # NoConfig /\ TLen(sk.config.raw) > 0
                THEN estimateTokens(sk.config.raw) ELSE 0)
           + depCount(sk) * 5)

\* In quarter tokens: 4 * min(readmeLength / 4, 500) = min(readmeLength, 2000)
estimateBaseContextTokens(sk, readmeLength) ==
  Quarters(500 + Len(sk.modules) * 10
           + (IF sk.config # NoConfig /\ TLen(sk.config.raw) > 0
                THEN estimateTokens(sk.config.raw) ELSE 0)
           + depCount(sk) * 5
           + estimateTokens(NumStr(readmeLength)))
  + Min(readmeLength, 2000)

reservedForPrompts == 1500

\* module.path.split('/').slice(0, -1).join('/') || '.'
DirOf(module) ==
  IF Len(module.path) = 1 THEN <<".">> ELSE SubSeq(module.path, 1, Len(module.path) - 1)

\* Keys of modulesByDir in insertion order: each directory at its first occurrence
RECURSIVE DirKeys(_, _)
DirKeys(modules, seen) ==
  IF modules = <<>> THEN <<>>
  ELSE IF DirOf(Head(modules)) \in seen THEN DirKeys(Tail(modules), seen)
  ELSE <<DirOf(Head(modules))>> \o DirKeys(Tail(modules), seen \cup {DirOf(Head(modules))})

\* A mutant: the modules are walked in their original order, ungrouped
modulesByDirUngrouped(modules) == [i \in 1..Len(modules) |-> <<modules[i]>>]

\* A mutant: modulesByDir.set(dir, [module]) replaces the group instead of extending it
modulesByDirOverwritten(modules) ==
  LET keys == DirKeys(modules, {})
  IN  [k \in 1..Len(keys) |->
         LET group == SelectSeq(modules, LAMBDA m : DirOf(m) = keys[k])
         IN  <<group[Len(group)]>>]

\* Values of modulesByDir in insertion order
modulesByDir(modules) ==
  LET keys == DirKeys(modules, {})
  IN  [k \in 1..Len(keys) |-> SelectSeq(modules, LAMBDA m : DirOf(m) = keys[k])]

\* A mutant: the chunk is closed one record too late
StartsNewChunkLate(currentTokens, tokens, availablePerChunk, currentLen) ==
  Quarters(currentTokens) > availablePerChunk /\ currentLen > 0

\* A mutant: a chunk is never closed before the end
StartsNewChunkNever(currentTokens, tokens, availablePerChunk, currentLen) ==
  Quarters(currentTokens + tokens) > availablePerChunk /\ currentLen > 0 /\ tokens < 0

\* A mutant: every record after the first of a chunk starts a new chunk
StartsNewChunkEager(currentTokens, tokens, availablePerChunk, currentLen) ==
  Quarters(currentTokens + tokens) > 0 /\ currentLen > 0

\* currentTokens + moduleTokens > availablePerChunk && currentChunk.length > 0
StartsNewChunk(currentTokens, tokens, availablePerChunk, currentLen) ==
  Quarters(currentTokens + tokens) > availablePerChunk /\ currentLen > 0

\* currentTokens when the records first..last of the walk are in currentChunk
TokensFromTo(ordered, first, last) ==
  SumSeq([i \in 1..(last - first + 1) |-> moduleTokens(ordered[first + i - 1])])

\* Where the chunk that begins with record `first` ends: at the first record after
\* which the loop closes the chunk, or at the last record of the walk
ChunkEnd(ordered, first, availablePerChunk) ==
  LET closesAfter(last) ==
        StartsNewChunk(TokensFromTo(ordered, first, last), moduleTokens(ordered[last + 1]),
                       availablePerChunk, last - first + 1)
  IN  CHOOSE last \in first..Len(ordered) :
        /\ last = Len(ordered) \/ closesAfter(last)
        /\ \A earlier \in first..(last - 1) : ~closesAfter(earlier)

\* The two nested loops over modulesByDir, then "add the last chunk", told chunk by
\* chunk: the chunks the loops push for the records from `first` on
RECURSIVE PackChunks(_, _, _)
PackChunks(ordered, first, availablePerChunk) ==
  IF first > Len(ordered) THEN <<>>
  ELSE LET last == ChunkEnd(ordered, first, availablePerChunk)
       IN  <<SubSeq(ordered, first, last)>> \o PackChunks(ordered, last + 1, availablePerChunk)

\* A mutant: the chunks keep what they were pushed with, totalChunks 0
NumberedAsPushed(lists) ==
  [i \in 1..Len(lists) |->
     [modules |-> lists[i], chunkIndex |-> i - 1, totalChunks |-> 0,
      isLast |-> (i = Len(lists))]]

\* "Update totalChunks and isLast for all chunks"
Numbered(lists) ==
  [i \in 1..Len(lists) |->
     [modules |-> lists[i], chunkIndex |-> i - 1, totalChunks |-> Len(lists),
      isLast |-> (i = Len(lists))]]

availablePerChunkOf(maxTokensPerChunk, baseContextTokens) ==
  Quarters(maxTokensPerChunk) - baseContextTokens - Quarters(reservedForPrompts)

\* A mutant: no single-chunk fallback when nothing is left of the budget
splitIntoChunksAlwaysPacked(sk, maxTokensPerChunk, baseContextTokens) ==
  LET availablePerChunk == availablePerChunkOf(maxTokensPerChunk, baseContextTokens)
  IN  IF Len(sk.modules) = 0 THEN <<>>
      ELSE Numbered(PackChunks(Flatten(modulesByDir(sk.modules)), 1, availablePerChunk))

\* A mutant: the test for an empty module list is missing
splitIntoChunksNoEmptyTest(sk, maxTokensPerChunk, baseContextTokens) ==
  LET availablePerChunk == availablePerChunkOf(maxTokensPerChunk, baseContextTokens)
  IN  IF availablePerChunk <= 0
        THEN <<[modules |-> sk.modules, chunkIndex |-> 0, totalChunks |-> 1,
                isLast |-> TRUE]>>
      ELSE Numbered(PackChunks(Flatten(modulesByDir(sk.modules)), 1, availablePerChunk))

splitIntoChunks(sk, maxTokensPerChunk, baseContextTokens) ==
  LET availablePerChunk == availablePerChunkOf(maxTokensPerChunk, baseContextTokens)
  IN  IF Len(sk.modules) = 0 THEN <<>>
      ELSE IF availablePerChunk <= 0
        THEN <<[modules |-> sk.modules, chunkIndex |-> 0, totalChunks |-> 1,
                isLast |-> TRUE]>>
      ELSE Numbered(PackChunks(Flatten(modulesByDir(sk.modules)), 1, availablePerChunk))

allModuleTokens(sk) == SumSeq([i \in 1..Len(sk.modules) |-> moduleTokens(sk.modules[i])])

\* A mutant: the comparison includes equality
needsChunkingGeq(sk, maxTokensArg, readmeLength) ==
  estimateBaseContextTokens(sk, readmeLength) + Quarters(allModuleTokens(sk) + 2000)
    >= Quarters(maxTokensArg)

needsChunking(sk, maxTokensArg, readmeLength) ==
  estimateBaseContextTokens(sk, readmeLength) + Quarters(allModuleTokens(sk) + 2000)
    > Quarters(maxTokensArg)


(***************************************************************************)
(* analyzer/index.ts: formatDirectoryTree, formatSkeletonForAI             *)
(***************************************************************************)
\* A DirectoryTree node; isDot models name === '.'.  buildDirectoryTree gives children
\* to directories only, so `if (tree.children)` is the test type = "dir"
FileNode(name) == [name |-> name, isDot |-> FALSE, type |-> "file", children |-> <<>>]
DirNode(name, children) == [name |-> name, isDot |-> FALSE, type |-> "dir", children |-> children]
RootNode(children) == [name |-> S("."), isDot |-> TRUE, type |-> "dir", children |-> children]

Spaces(n) == Txt(0, n)

\* [...children].sort(directories first, then name.localeCompare): the file tree is
\* built from items sorted by path, so children already are in name order
SortedChildren(children) ==
  SelectSeq(children, LAMBDA n : n.type = "dir") \o SelectSeq(children, LAMBDA n : n.type # "dir")

RECURSIVE formatDirectoryTree(_, _)
formatDirectoryTree(tree, indent) ==
  LET icon == IF tree.type = "dir" THEN Txt(0, 3) ELSE Txt(0, 4)
      own  == IF ~tree.isDot THEN <<Spaces(indent) ++ icon ++ S(" ") ++ tree.name>> ELSE <<>>
      sortedChildren == SortedChildren(tree.children)
      shown == Min(Len(sortedChildren), 50)
      kids ==
        IF tree.type # "dir" THEN <<>>
        ELSE [i \in 1..shown |-> formatDirectoryTree(sortedChildren[i], indent + 2)]
             \o (IF Len(sortedChildren) > 50
                   THEN <<Spaces(indent) ++ S("  ... and ")
                          ++ NumStr(Len(sortedChildren) - 50) ++ S(" more items")>>
                   ELSE <<>>)
  IN  JoinLines(own \o kids)

\* String.prototype.substring(0, n); the texts of the model are laid out with their
\* dense characters first
Substring(t, n) == Txt(Min(t.c, n), Min(t.o, n - Min(t.c, n)))

\* The three-backtick code fence
Fence == Txt(0, 3)

DepLine(dep) == S("  - ") ++ dep.name ++ S(": ") ++ dep.version

ConfigLines(config) ==
  IF config = NoConfig THEN <<>>
  ELSE <<S("## Configuration"), S("Project type: ") ++ S(config.type)>>
       \o (IF Has(config.name) THEN <<S("Name: ") ++ config.name>> ELSE <<>>)
       \o (IF Has(config.version) THEN <<S("Version: ") ++ config.version>> ELSE <<>>)
       \o (IF Has(config.description)
             THEN <<S("Description: ") ++ config.description>> ELSE <<>>)
       \o (IF Len(config.scripts) > 0
             THEN <<S("\nScripts:")>>
                  \o [i \in 1..Len(config.scripts) |->
                        S("  - ") ++ config.scripts[i].name ++ S(": ") ++ config.scripts[i].cmd]
             ELSE <<>>)
       \o <<Empty>>

RuntimeLines(runtime) ==
  IF Len(runtime) = 0 THEN <<>>
  ELSE <<S("## Dependencies"), S("Runtime:")>>
       \o [i \in 1..Min(Len(runtime), 20) |-> DepLine(runtime[i])]
       \o (IF Len(runtime) > 20
             THEN <<S("  ... and ") ++ NumStr(Len(runtime) - 20) ++ S(" more")>> ELSE <<>>)
       \o <<Empty>>

EntryLines(entryPoints) ==
  IF Len(entryPoints) = 0 THEN <<>>
  ELSE <<S("## Entry Points")>>
       \o [i \in 1..Len(entryPoints) |-> S("- ") ++ entryPoints[i]]
       \o <<Empty>>

ModuleLines(modules) ==
  IF Len(modules) = 0 THEN <<>>
  ELSE <<S("## Code Modules")>>
       \o Flatten([i \in 1..Len(modules) |->
                     <<S("\n### ") ++ PathText(modules[i].path)>>
                     \o ModuleBodyLines(modules[i])])
       \o <<Empty>>

ReadmeLines(readmeText) ==
  IF TLen(readmeText) = 0 THEN <<>>
  ELSE <<S("## README (excerpt)"), Substring(readmeText, 2000)>>
       \o (IF TLen(readmeText) > 2000 THEN <<S("\n... (truncated)")>> ELSE <<>>)

formatSkeletonForAI(sk, info) ==
  JoinLines(
    <<S("## Project Information"),
      S("- Name: ") ++ info.repo,
      S("- Owner: ") ++ info.owner,
      S("- Language: ") ++ info.language,
      S("- Stars: ") ++ NumStr(info.stars),
      S("- Description: ")
        ++ (IF TLen(info.description) > 0 THEN info.description ELSE S("No description")),
      Empty,
      S("## Directory Structure"), Fence, formatDirectoryTree(sk.structure, 0), Fence,
      Empty>>
    \o ConfigLines(sk.config)
    \o RuntimeLines(sk.dependencies.runtime)
    \o EntryLines(sk.entryPoints)
    \o ModuleLines(sk.modules)
    \o ReadmeLines(info.readme))


(***************************************************************************)
(* Inputs of the planner: repositories (everything but the module list)    *)
(* and budgets                                                             *)
(***************************************************************************)
Dep(name, version) == [name |-> name, version |-> version]
Script(name, cmd) == [name |-> name, cmd |-> cmd]

\* parseConfig of a package.json
NpmConfig ==
  [type |-> "npm", name |-> S("demo"), version |-> S("1.0.0"),
   description |-> S("A demo package"),
   scripts |-> <<Script(S("build"), S("tsc -p ."))>>,
   dependencies |-> <<Dep(S("react"), S("^18.2.0")), Dep(S("zod"), S("^3.22.0"))>>,
   devDependencies |-> <<Dep(S("typescript"), S("^5.4.0"))>>,
   raw |-> Txt(0, 420)]

\* extractDependencies
extractDependencies(config) ==
  IF config # NoConfig /\ config.type = "npm"
    THEN [runtime |-> config.dependencies, dev |-> config.devDependencies]
    ELSE [runtime |-> <<>>, dev |-> <<>>]

SmallTree ==
  RootNode(<<DirNode(S("lib"), <<FileNode(S("b.ts"))>>),
             DirNode(S("src"), <<FileNode(S("a.ts")), FileNode(S("c.ts")),
                                 DirNode(S("lib"), <<FileNode(S("d.ts"))>>)>>),
             FileNode(S("README.md")), FileNode(S("main.ts")),
             FileNode(S("package.json"))>>)

\* A repository with many files that are not analyzed: 60 directories of 55 files
WideTree ==
  RootNode([d \in 1..60 |-> DirNode(Txt(0, 12), [f \in 1..55 |-> FileNode(Txt(0, 40))])])

Info(description, readmeText) ==
  [owner |-> S("octo"), repo |-> S("demo"), language |-> S("TypeScript"), stars |-> 42,
   description |-> description, readme |-> readmeText]

RepoProfiles ==
  { [structure |-> SmallTree, config |-> NoConfig, entryPoints |-> <<>>,
     info |-> Info(Empty, Empty)],
    [structure |-> SmallTree, config |-> NpmConfig, entryPoints |-> <<S("main.ts")>>,
     info |-> Info(S("Demo project"), Txt(0, 3001))],
    [structure |-> WideTree, config |-> NoConfig, entryPoints |-> <<S("main.ts")>>,
     info |-> Info(Txt(6, 0), Txt(2500, 0))] }

MkSkeleton(profile, modules) ==
  [structure |-> profile.structure, config |-> profile.config,
   entryPoints |-> profile.entryPoints, modules |-> modules,
   dependencies |-> extractDependencies(profile.config)]

\* Budgets around the base overhead, one that a one-module skeleton meets exactly
\* with its buffer, and the budget of a 32000-token model
Budgets == {1900, 2040, 2060, 2100, 2523, 2700, 25600}

(***************************************************************************)
(* modelLimits.ts                                                          *)
(***************************************************************************)
MODEL_CONTEXT_LIMITS ==
  [m \in {"claude-sonnet-4-20250514", "claude-3-5-sonnet-20241022", "claude-3-haiku-20240307"}
     |-> 200000]
  @@ [m \in {"gpt-4o", "gpt-4o-mini", "gpt-4-turbo", "meta-llama/Llama-3.3-70B-Instruct",
             "glm-4.5-air", "glm-4-plus", "glm-4-air", "glm-4-flash"} |-> 128000]
  @@ [m \in {"deepseek-ai/DeepSeek-V3", "deepseek-ai/DeepSeek-R1"} |-> 64000]
  @@ [m \in {"Qwen/Qwen2.5-72B-Instruct"} |-> 32000]

DEFAULT_CONTEXT_LIMIT == 32000

\* The names a plain object inherits from Object.prototype
ObjectPrototypeKeys ==
  { "constructor", "toString", "toLocaleString", "valueOf", "hasOwnProperty",
    "isPrototypeOf", "propertyIsEnumerable", "__proto__", "__defineGetter__",
    "__defineSetter__", "__lookupGetter__", "__lookupSetter__" }

\* MODEL_CONTEXT_LIMITS[model]: the table is an object literal, so a name that is not
\* its own property is looked up in Object.prototype before it reads as undefined
limitProperty(model) ==
  IF model \in DOMAIN MODEL_CONTEXT_LIMITS THEN [t |-> "number", n |-> MODEL_CONTEXT_LIMITS[model]]
  ELSE IF model = "__proto__" THEN [t |-> "object", f |-> <<>>]
  ELSE IF model \in ObjectPrototypeKeys THEN [t |-> "function"]
  ELSE [t |-> "undefined"]

\* limit || DEFAULT_CONTEXT_LIMIT: undefined is falsy, a function or an object is not
limitOrDefault(limit) ==
  IF limit.t = "undefined" \/ (limit.t = "number" /\ limit.n = 0)
    THEN [t |-> "number", n |-> DEFAULT_CONTEXT_LIMIT]
    ELSE limit

getRawModelContextLimit(model) == limitOrDefault(limitProperty(model))

NaN == [t |-> "NaN"]

\* A mutant: the whole context window is the budget
getModelContextLimitNoMargin(model) == limitOrDefault(limitProperty(model))

\* Math.floor(limit * SAFETY_MARGIN), SAFETY_MARGIN = 0.8; a function or an object
\* times a number is NaN
getModelContextLimit(model) ==
  LET limit == limitOrDefault(limitProperty(model))
  IN  IF limit.t = "number" THEN [t |-> "number", n |-> (limit.n * 8) \div 10] ELSE NaN


(***************************************************************************)
(* Values of JSON.parse, with the JavaScript operations the orchestrator   *)
(* applies to them                                                         *)
(***************************************************************************)
JUndef == [t |-> "undefined"]
JNull == [t |-> "null"]
JNum(n) == [t |-> "number", n |-> n]
JStr(text) == [t |-> "string", s |-> text]
JArr(items) == [t |-> "array", items |-> items]
JObj(fields) == [t |-> "object", f |-> fields]

\* v is neither null nor undefined: reading a property of v does not throw
Readable(v) == v.t \notin {"undefined", "null"}

\* v.name, for a readable v
Get(v, name) ==
  IF name = "length" /\ v.t = "array" THEN JNum(Len(v.items))
  ELSE IF name = "length" /\ v.t = "string" THEN JNum(TLen(v.s))
  ELSE IF v.t = "object" /\ name \in DOMAIN v.f THEN v.f[name]
  ELSE JUndef

Truthy(v) ==
  CASE v.t \in {"undefined", "null"} -> FALSE
    [] v.t = "number" -> v.n # 0
    [] v.t = "string" -> TLen(v.s) > 0
    [] OTHER -> TRUE

\* v || d
OrElse(v, d) == IF Truthy(v) THEN v ELSE d

\* v.length > 0, for a readable v
LengthPositive(v) == LET n == Get(v, "length") IN n.t = "number" /\ n.n > 0

\* String(v), and Array.prototype.join where null and undefined render as ''
RECURSIVE StringOf(_)
StringOf(v) ==
  CASE v.t = "undefined" -> S("undefined")
    [] v.t = "null" -> S("null")
    [] v.t = "number" -> NumStr(v.n)
    [] v.t = "string" -> v.s
    [] v.t = "array" ->
         Join([i \in 1..Len(v.items) |->
                 IF Readable(v.items[i]) THEN StringOf(v.items[i]) ELSE Empty], S(","))
    [] OTHER -> S("[object Object]")

JoinValues(v, sep) ==
  Join([i \in 1..Len(v.items) |->
          IF Readable(v.items[i]) THEN StringOf(v.items[i]) ELSE Empty], sep)

\* v.join is a function
HasJoin(v) == v.t = "array"

(***************************************************************************)
(* ai/index.ts: parseChunkSummary.  A backend response is the text left    *)
(* after trimming and unfencing: either JSON.parse throws on it (json is   *)
(* FALSE) or it parses to `value`.                                         *)
(***************************************************************************)
Response(json, value) == [json |-> json, value |-> value]

EmptySummary(chunkIndex) ==
  [chunkIndex |-> chunkIndex,
   moduleResponsibilities |-> JArr(<<>>),
   architecturePatterns |-> JArr(<<>>),
   dependencies |-> JObj([internal |-> JArr(<<>>), external |-> JArr(<<>>)]),
   potentialRisks |-> JArr(<<>>),
   techStack |-> JArr(<<>>)]

\* A mutant: a field is kept only when it is an array
parseChunkSummaryArraysOnly(response, chunkIndex) ==
  LET parsed == response.value
      arr(name) == IF Get(parsed, name).t = "array" THEN Get(parsed, name) ELSE JArr(<<>>)
  IN  IF ~response.json \/ ~Readable(parsed) THEN EmptySummary(chunkIndex)
      ELSE [chunkIndex |-> chunkIndex,
            moduleResponsibilities |-> arr("moduleResponsibilities"),
            architecturePatterns |-> arr("architecturePatterns"),
            dependencies |-> EmptySummary(chunkIndex).dependencies,
            potentialRisks |-> arr("potentialRisks"),
            techStack |-> arr("techStack")]

\* A mutant: a chunkIndex in the response replaces the one of the chunk
parseChunkSummaryIndexOfResponse(response, chunkIndex) ==
  LET parsed == response.value
      stated == Get(parsed, "chunkIndex")
  IN  IF ~response.json \/ ~Readable(parsed) THEN EmptySummary(chunkIndex)
      ELSE [chunkIndex |-> IF stated.t = "number" THEN stated.n ELSE chunkIndex,
            moduleResponsibilities |-> OrElse(Get(parsed, "moduleResponsibilities"), JArr(<<>>)),
            architecturePatterns |-> OrElse(Get(parsed, "architecturePatterns"), JArr(<<>>)),
            dependencies |-> OrElse(Get(parsed, "dependencies"),
                                    EmptySummary(chunkIndex).dependencies),
            potentialRisks |-> OrElse(Get(parsed, "potentialRisks"), JArr(<<>>)),
            techStack |-> OrElse(Get(parsed, "techStack"), JArr(<<>>))]

\* JSON.parse throwing, and reading a property of null, both end in the catch branch
parseChunkSummary(response, chunkIndex) ==
  LET parsed == response.value
  IN  IF ~response.json \/ ~Readable(parsed) THEN EmptySummary(chunkIndex)
      ELSE [chunkIndex |-> chunkIndex,
            moduleResponsibilities |-> OrElse(Get(parsed, "moduleResponsibilities"), JArr(<<>>)),
            architecturePatterns |-> OrElse(Get(parsed, "architecturePatterns"), JArr(<<>>)),
            dependencies |-> OrElse(Get(parsed, "dependencies"),
                                    EmptySummary(chunkIndex).dependencies),
            potentialRisks |-> OrElse(Get(parsed, "potentialRisks"), JArr(<<>>)),
            techStack |-> OrElse(Get(parsed, "techStack"), JArr(<<>>))]

(***************************************************************************)
(* ai/index.ts: the text handling of parseChunkSummary.  A response text   *)
(* is the sequence of the pieces the code tells apart: whitespace, a run   *)
(* of three backticks, the letters json, a JSON document, other text.      *)
(***************************************************************************)
Piece(kind, value) == [k |-> kind, v |-> value]

Ws == Piece("ws", JUndef)

Ticks == Piece("fence", JUndef)

Lang == Piece("json", JUndef)

Prose == Piece("prose", JUndef)

Doc(value) == Piece("doc", value)

RECURSIVE trimStart(_)
trimStart(text) ==
  IF text # <<>> /\ Head(text) = Ws THEN trimStart(Tail(text)) ELSE text

RECURSIVE trimEnd(_)
trimEnd(text) ==
  IF text # <<>> /\ text[Len(text)] = Ws THEN trimEnd(SubSeq(text, 1, Len(text) - 1)) ELSE text

trim(text) == trimEnd(trimStart(text))

startsWith(text, prefix) ==
  Len(text) >= Len(prefix) /\ SubSeq(text, 1, Len(prefix)) = prefix

endsWith(text, suffix) ==
  Len(text) >= Len(suffix) /\ SubSeq(text, Len(text) - Len(suffix) + 1, Len(text)) = suffix

\* A mutant: the closing fence is left in place
stripFenceOpeningOnly(response) ==
  LET jsonStr == trim(response)
      opened == IF startsWith(jsonStr, <<Ticks, Lang>>) THEN SubSeq(jsonStr, 3, Len(jsonStr))
                ELSE IF startsWith(jsonStr, <<Ticks>>) THEN Tail(jsonStr)
                ELSE jsonStr
  IN  trim(opened)

\* trim; slice(7) after ```json, else slice(3) after ```; slice(0, -3) before ```; trim
stripFence(response) ==
  LET jsonStr == trim(response)
      opened == IF startsWith(jsonStr, <<Ticks, Lang>>) THEN SubSeq(jsonStr, 3, Len(jsonStr))
                ELSE IF startsWith(jsonStr, <<Ticks>>) THEN Tail(jsonStr)
                ELSE jsonStr
      closed == IF endsWith(opened, <<Ticks>>) THEN SubSeq(opened, 1, Len(opened) - 1)
                ELSE opened
  IN  trim(closed)

\* JSON.parse: one document, whitespace around it allowed; anything else throws
JSONparse(text) ==
  LET core == SelectSeq(text, LAMBDA p : p # Ws)
  IN  IF Len(core) = 1 /\ core[1].k = "doc" THEN Response(TRUE, core[1].v)
      ELSE Response(FALSE, JUndef)

\* parseChunkSummary from the text of the response on
parseChunkSummaryOfText(response, chunkIndex) ==
  parseChunkSummary(JSONparse(stripFence(response)), chunkIndex)

(***************************************************************************)
(* chunker.ts: formatChunkSummaryForContext.  It throws a TypeError when   *)
(* it iterates a non-array, reads a property of null or undefined, or      *)
(* calls join on a value that has none.                                    *)
(***************************************************************************)
\* `- ${mod.path}: ...`, mod.keyFunctions.length, mod.keyFunctions.join
ModEntryThrows(mod) ==
  \/ ~Readable(mod)
  \/ ~Readable(Get(mod, "keyFunctions"))
  \/ LengthPositive(Get(mod, "keyFunctions")) /\ ~HasJoin(Get(mod, "keyFunctions"))

ListFieldThrows(v) == LengthPositive(v) /\ ~HasJoin(v)

SummaryThrows(summary) ==
  \/ /\ LengthPositive(summary.moduleResponsibilities)
     /\ \/ summary.moduleResponsibilities.t # "array"
        \/ \E i \in 1..Len(summary.moduleResponsibilities.items) :
             ModEntryThrows(summary.moduleResponsibilities.items[i])
  \/ ListFieldThrows(summary.architecturePatterns)
  \/ ListFieldThrows(summary.techStack)
  \/ ListFieldThrows(summary.potentialRisks)

formatChunkSummaryThrows(summaries) ==
  \E i \in 1..Len(summaries) : SummaryThrows(summaries[i])

ModEntryLines(mod) ==
  <<S("- ") ++ StringOf(Get(mod, "path")) ++ S(": ") ++ StringOf(Get(mod, "responsibility"))>>
  \o (IF LengthPositive(Get(mod, "keyFunctions"))
        THEN <<S("  Key functions: ") ++ JoinValues(Get(mod, "keyFunctions"), S(", "))>>
        ELSE <<>>)

ListFieldLines(label, v) ==
  IF LengthPositive(v) THEN <<S(label) ++ JoinValues(v, S(", "))>> ELSE <<>>

SummaryLines(summary) ==
  <<S("### Chunk ") ++ NumStr(summary.chunkIndex + 1) ++ S(" Summary")>>
  \o (IF LengthPositive(summary.moduleResponsibilities)
        THEN <<S("Module Responsibilities:")>>
             \o Flatten([i \in 1..Len(summary.moduleResponsibilities.items) |->
                           ModEntryLines(summary.moduleResponsibilities.items[i])])
        ELSE <<>>)
  \o ListFieldLines("Architecture Patterns: ", summary.architecturePatterns)
  \o ListFieldLines("Tech Stack: ", summary.techStack)
  \o ListFieldLines("Potential Risks: ", summary.potentialRisks)
  \o <<Empty>>

\* A mutant: the last summary is left out of the digest
formatChunkSummaryForContextButLast(summaries) ==
  IF Len(summaries) = 0 THEN Empty
  ELSE JoinLines(<<S("## Previous Analysis Summaries\n")>>
                 \o Flatten([i \in 1..(Len(summaries) - 1) |-> SummaryLines(summaries[i])]))

\* The digest, for summaries on which it does not throw
formatChunkSummaryForContext(summaries) ==
  IF Len(summaries) = 0 THEN Empty
  ELSE JoinLines(<<S("## Previous Analysis Summaries\n")>>
                 \o Flatten([i \in 1..Len(summaries) |-> SummaryLines(summaries[i])]))

(***************************************************************************)
(* prompts/chunkedAnalysis.ts: the prompt texts, and ai/index.ts: the      *)
(* renderers of the round prompt and of the final report prompt.           *)
(* String.prototype.replace with a string pattern replaces the first       *)
(* occurrence only, so the heading's second {chunkIndex}/{totalChunks}     *)
(* stays in the round prompt as written.                                   *)
(***************************************************************************)
CHUNK_ANALYSIS_SYSTEM_PROMPT == Txt(0, 1139)
FINAL_REPORT_SYSTEM_PROMPT == Txt(0, 790)

FirstChunkMarker == S("This is the first chunk, no previous summaries.")

\* CHUNK_ANALYSIS_USER_PROMPT after its five replace calls
ChunkUserPrompt(chunkNumber, totalChunks, previousSummaries, projectContext, modules) ==
  S("Analyze chunk ") ++ chunkNumber ++ S(" of ") ++ totalChunks
  ++ S(" from this codebase.\n\n") ++ previousSummaries
  ++ S("\n\n## Project Context\n") ++ projectContext
  ++ S("\n\n## Modules to Analyze (Chunk {chunkIndex}/{totalChunks})\n") ++ modules
  ++ S("\n\nOutput your analysis as a JSON object following the schema provided. ")
  ++ S("Remember: ONLY output valid JSON, nothing else.")

\* FINAL_REPORT_USER_PROMPT after its five replace calls
FinalUserPrompt(projectInfo, totalChunks, accumulatedSummaries, directoryStructure, dependencies) ==
  S("Generate a comprehensive analysis report for this project.\n\n")
  ++ S("## Project Information\n") ++ projectInfo
  ++ S("\n\n## Accumulated Analysis from ") ++ totalChunks ++ S(" Chunks\n")
  ++ accumulatedSummaries
  ++ S("\n\n## Directory Structure\n") ++ directoryStructure
  ++ S("\n\n## Dependencies\n") ++ dependencies
  ++ S("\n\nCreate a detailed, well-organized Markdown report that helps developers ")
  ++ S("understand this codebase quickly.")

\* repoInfo.description || 'N/A'
DescriptionOrNA(info) == IF TLen(info.description) > 0 THEN info.description ELSE S("N/A")

projectContextOf(info) ==
  S("Project: ") ++ info.owner ++ S("/") ++ info.repo
  ++ S("\nLanguage: ") ++ info.language
  ++ S("\nDescription: ") ++ DescriptionOrNA(info)

projectInfoOf(info) ==
  S("- Name: ") ++ info.repo ++ S("\n- Owner: ") ++ info.owner
  ++ S("\n- Language: ") ++ info.language ++ S("\n- Stars: ") ++ NumStr(info.stars)
  ++ S("\n- Description: ") ++ DescriptionOrNA(info)

formatModulesForChunk(modules) ==
  JoinLines(Flatten([i \in 1..Len(modules) |->
                       <<S("### ") ++ PathText(modules[i].path)>>
                       \o ModuleBodyLines(modules[i]) \o <<Empty>>]))

\* The icons are one astral character each: two UTF-16 units
RECURSIVE DirectoryStructureLines(_, _)
DirectoryStructureLines(node, indent) ==
  LET own == IF ~node.isDot THEN <<Spaces(indent) ++ Txt(0, 2) ++ S(" ") ++ node.name>>
             ELSE <<>>
      sorted == SortedChildren(node.children)
      kids ==
        IF node.type # "dir" THEN <<>>
        ELSE Flatten([i \in 1..Min(Len(sorted), 30) |->
                        DirectoryStructureLines(sorted[i], indent + 2)])
             \o (IF Len(sorted) > 30
                   THEN <<Spaces(indent) ++ S("  ... and ") ++ NumStr(Len(sorted) - 30)
                          ++ S(" more")>>
                   ELSE <<>>)
  IN  own \o kids

formatDirectoryStructure(sk) == JoinLines(DirectoryStructureLines(sk.structure, 0))

formatDependencies(sk) ==
  LET runtime == sk.dependencies.runtime
      dev == sk.dependencies.dev
  IN  JoinLines(
        (IF Len(runtime) > 0
           THEN <<S("Runtime Dependencies:")>>
                \o [i \in 1..Min(Len(runtime), 15) |-> DepLine(runtime[i])]
                \o (IF Len(runtime) > 15
                      THEN <<S("  ... and ") ++ NumStr(Len(runtime) - 15) ++ S(" more")>>
                      ELSE <<>>)
           ELSE <<>>)
        \o (IF Len(dev) > 0
              THEN <<S("\nDev Dependencies:")>>
                   \o [i \in 1..Min(Len(dev), 10) |-> DepLine(dev[i])]
                   \o (IF Len(dev) > 10
                         THEN <<S("  ... and ") ++ NumStr(Len(dev) - 10) ++ S(" more")>>
                         ELSE <<>>)
              ELSE <<>>))

\* The round prompt as sent: system prompt and user prompt
RoundPrompt(chunk, totalChunks, info, summaries) ==
  CHUNK_ANALYSIS_SYSTEM_PROMPT
  ++ ChunkUserPrompt(NumStr(chunk.chunkIndex + 1), NumStr(totalChunks),
                     IF Len(summaries) > 0 THEN formatChunkSummaryForContext(summaries)
                     ELSE FirstChunkMarker,
                     projectContextOf(info), formatModulesForChunk(chunk.modules))

\* The final report prompt as sent; the stream functions replace '{skeleton}' in it by ''
FinalPrompt(sk, info, totalChunks, summaries) ==
  FINAL_REPORT_SYSTEM_PROMPT
  ++ FinalUserPrompt(projectInfoOf(info), NumStr(totalChunks),
                     formatChunkSummaryForContext(summaries),
                     formatDirectoryStructure(sk), formatDependencies(sk))

(***************************************************************************)
(* background script: the task registry (activeTasks, lastSaveTimes, the   *)
(* session copy).  An operation on the registry takes the registry g and   *)
(* the time t and returns the registry it leaves.                          *)
(***************************************************************************)
ANALYSIS_TIMEOUT == 5 * 60 * 1000
THROTTLE_INTERVAL == 500
TASK_CLEANUP_DELAY == 5 * 60 * 1000
MAX_CONCURRENT_TASKS == 3

Null == [none |-> TRUE]
Err(message) == [message |-> message]
NoMap == [k \in {} |-> Null]

Registry == [tasks |-> activeTasks, saves |-> lastSaveTimes, session |-> session]

\* stage !== 'complete' && stage !== 'error' && stage !== 'idle'
Running(task) == task.stage \notin {"complete", "error", "idle"}

\* chrome.storage.session.set({ [ANALYSIS_STATE_KEY]: Object.fromEntries(activeTasks) })
saveAnalysisState(g) ==
  IF DOMAIN g.tasks = {} THEN g
  ELSE [g EXCEPT !.session = [present |-> TRUE, tasks |-> g.tasks]]

forceSaveAnalysisState(g, t) ==
  IF DOMAIN g.tasks = {} THEN [g EXCEPT !.session = [present |-> FALSE, tasks |-> NoMap]]
  ELSE LET stamped == [k \in DOMAIN g.tasks |-> [g.tasks[k] EXCEPT !.lastUpdatedAt = t]]
       IN  [g EXCEPT !.tasks = stamped, !.session = [present |-> TRUE, tasks |-> stamped]]

\* Object.assign(task, updates)
Assign(task, updates) ==
  [f \in DOMAIN task |-> IF f \in DOMAIN updates THEN updates[f] ELSE task[f]]

\* A mutant: every update is saved
updateTaskUnthrottled(g, taskId, updates, t) ==
  IF taskId \notin DOMAIN g.tasks THEN g
  ELSE LET task == [Assign(g.tasks[taskId], updates) EXCEPT !.lastUpdatedAt = t]
           g1 == [g EXCEPT !.tasks = [g.tasks EXCEPT ![taskId] = task]]
       IN  saveAnalysisState([g1 EXCEPT !.saves = (taskId :> t) @@ g.saves])

updateTask(g, taskId, updates, t) ==
  IF taskId \notin DOMAIN g.tasks THEN g
  ELSE LET task == [Assign(g.tasks[taskId], updates) EXCEPT !.lastUpdatedAt = t]
           g1 == [g EXCEPT !.tasks = [g.tasks EXCEPT ![taskId] = task]]
           lastSave == IF taskId \in DOMAIN g.saves THEN g.saves[taskId] ELSE 0
       IN  IF t - lastSave >= THROTTLE_INTERVAL
             THEN saveAnalysisState([g1 EXCEPT !.saves = (taskId :> t) @@ g.saves])
             ELSE g1

\* A Map without one key
Without(map, key) == [k \in DOMAIN map \ {key} |-> map[k]]

\* task.stage = 'error'; task.error = message, when the Map holds the task
MarkError(g, taskId, message) ==
  IF taskId \notin DOMAIN g.tasks THEN g
  ELSE [g EXCEPT !.tasks = [g.tasks EXCEPT ![taskId] =
                              [@ EXCEPT !.stage = "error", !.error = Err(message)]]]

\* The registry g becomes the state
Commit(g) ==
  /\ activeTasks' = g.tasks
  /\ lastSaveTimes' = g.saves
  /\ session' = g.session

CleanupTimer(taskId, t) == [id |-> taskId, due |-> t + TASK_CLEANUP_DELAY]

NoTasks ==
  /\ activeTasks = NoMap
  /\ lastSaveTimes = NoMap
  /\ session = [present |-> FALSE, tasks |-> NoMap]
  /\ timers = {}
  /\ runs = <<>>
  /\ now = 0
  /\ reply = Null

\* The planner is not under study
NoPlan ==
  /\ skeleton = Null
  /\ repoInfo = Null
  /\ maxTokens = 0
  /\ chunks = <<>>
  /\ needs = FALSE
  /\ rendered = 0
  /\ planPc = "off"

\* No pure function is under study
NoPure ==
  /\ input = Null
  /\ output = Null
  /\ purePc = "off"

\* Nothing is cached
NoCache == cache = <<>> /\ cacheOps = <<>>

(***************************************************************************)
(* The planner applied to one input                                        *)
(***************************************************************************)
PlanInit ==
  /\ \E profile \in RepoProfiles, modules \in ModuleLists :
       /\ skeleton = MkSkeleton(profile, modules)
       /\ repoInfo = profile.info
  /\ maxTokens \in Budgets
  /\ chunks = <<>>
  /\ needs = FALSE
  /\ rendered = 0
  /\ planPc = "input"
  /\ NoTasks
  /\ NoPure
  /\ NoCache

NeedsChunkingStep ==
  /\ planPc = "input"
  /\ needs' = needsChunking(skeleton, maxTokens, readmeLengthOf(repoInfo))
  /\ planPc' = "checked"
  /\ UNCHANGED <<skeleton, repoInfo, maxTokens, chunks, rendered>>
  /\ UNCHANGED <<taskVars, pureVars, cacheVars>>

SplitStep ==
  /\ planPc = "checked"
  /\ chunks' = splitIntoChunks(skeleton, maxTokens,
                               estimateBaseContextTokens(skeleton, readmeLengthOf(repoInfo)))
  /\ planPc' = "planned"
  /\ UNCHANGED <<skeleton, repoInfo, maxTokens, needs, rendered>>
  /\ UNCHANGED <<taskVars, pureVars, cacheVars>>

RenderStep ==
  /\ planPc = "checked"
  /\ rendered' = estimateTokens(formatSkeletonForAI(skeleton, repoInfo))
  /\ planPc' = "rendered"
  /\ UNCHANGED <<skeleton, repoInfo, maxTokens, needs, chunks>>
  /\ UNCHANGED <<taskVars, pureVars, cacheVars>>

PlanNext == NeedsChunkingStep \/ SplitStep \/ RenderStep

SpecPlan == PlanInit /\ [][PlanNext]_vars

(***************************************************************************)
(* The planner applied to skeletons of 40 modules in 5 directories, each   *)
(* module estimated at about 3000 tokens, under the budget of a            *)
(* 32000-token model                                                       *)
(***************************************************************************)
ScenarioFiles ==
  << "f01.ts", "f02.ts", "f03.ts", "f04.ts", "f05.ts", "f06.ts", "f07.ts",
     "f08.ts", "f09.ts", "f10.ts", "f11.ts", "f12.ts", "f13.ts", "f14.ts",
     "f15.ts", "f16.ts", "f17.ts", "f18.ts", "f19.ts", "f20.ts", "f21.ts",
     "f22.ts", "f23.ts", "f24.ts", "f25.ts", "f26.ts", "f27.ts", "f28.ts",
     "f29.ts", "f30.ts", "f31.ts", "f32.ts", "f33.ts", "f34.ts", "f35.ts",
     "f36.ts", "f37.ts", "f38.ts", "f39.ts", "f40.ts" >>

ScenarioDirs == <<"api", "core", "db", "ui", "util">>

\* Which directory the i-th module is in: eight in a row per directory, the five
\* directories in turn, or directories of 20, 10, 5, 3 and 2 modules
ScenarioLayouts ==
  { [i \in 1..40 |-> ((i - 1) \div 8) + 1],
    [i \in 1..40 |-> ((i - 1) % 5) + 1],
    [i \in 1..40 |-> IF i <= 20 THEN 1 ELSE IF i <= 30 THEN 2 ELSE IF i <= 35 THEN 3
                     ELSE IF i <= 38 THEN 4 ELSE 5] }

\* Length of the parameter list that makes up the bulk of the i-th module's text
ScenarioSizes ==
  { [i \in 1..40 |-> 11900],
    [i \in 1..40 |-> 11500],
    [i \in 1..40 |-> IF i % 2 = 1 THEN 11500 ELSE 12300],
    [i \in 1..40 |-> IF i <= 20 THEN 12300 ELSE 11500] }

ScenarioModules(layout, sizes) ==
  [i \in 1..40 |->
     Mod(<<ScenarioDirs[layout[i]], ScenarioFiles[i]>>, <<>>,
         <<Fn(S("run"), Txt(0, sizes[i]), NoText, TRUE, FALSE)>>, <<>>)]

\* The profiles of the planner's other inputs, and one with a package.json of 96 kB
ScenarioProfiles ==
  RepoProfiles \cup
    { [structure |-> SmallTree, config |-> [NpmConfig EXCEPT !.raw = Txt(0, 96000)],
       entryPoints |-> <<>>, info |-> Info(Empty, Empty)] }

ScenarioInit ==
  /\ \E profile \in ScenarioProfiles, layout \in ScenarioLayouts, sizes \in ScenarioSizes :
       /\ skeleton = MkSkeleton(profile, ScenarioModules(layout, sizes))
       /\ repoInfo = profile.info
  /\ maxTokens = 25600
  /\ chunks = <<>>
  /\ needs = FALSE
  /\ rendered = 0
  /\ planPc = "input"
  /\ NoTasks
  /\ NoPure
  /\ NoCache

ScenarioNext == NeedsChunkingStep \/ SplitStep

SpecScenario == ScenarioInit /\ [][ScenarioNext]_vars


(***************************************************************************)
(* background script: runAnalysis, with analyzeWithChunking and            *)
(* analyzeWithAI of ai/index.ts.  A run is one invocation of runAnalysis;  *)
(* its pc names the await it is suspended at.  A step of a run takes the   *)
(* registry and the run and returns both as it leaves them.                *)
(***************************************************************************)
StartTime == 1000000

\* Task progress, in hundredths of a percent
Percent(p) == 100 * p

\* The text a run has streamed so far: `tokens` tokens of the report of run `by`
Text(by, tokens) == [by |-> by, tokens |-> tokens]

NewTask(taskId, t) ==
  [id |-> taskId, stage |-> "fetching", progress |-> 0, analysis |-> Text(0, 0),
   repoInfo |-> Null, chunkProgress |-> Null, error |-> Null,
   startedAt |-> t, lastUpdatedAt |-> t]

\* responses lists the texts callAINonStreaming returned, in order
NewRun(taskId) ==
  [key |-> taskId, pc |-> "settings", settings |-> Null, profile |-> Null,
   skeleton |-> Null, useChunking |-> FALSE, estimatedChunks |-> 0, chunked |-> FALSE,
   chunks |-> <<>>, responses |-> <<>>, summaries |-> <<>>, calls |-> <<>>, fullText |-> 0,
   fullAnalysis |-> 0, events |-> <<>>, progressEvents |-> <<>>, error |-> Null]

Out(g, run, newTimers) == [g |-> g, run |-> run, timers |-> newTimers]

\* The step's outcome becomes the state
Apply(r, out) ==
  /\ runs' = [runs EXCEPT ![r] = out.run]
  /\ Commit(out.g)
  /\ timers' = timers \cup out.timers

\* model || 'claude-sonnet-4-20250514'
modelToUse(settings) ==
  IF settings.model # "" THEN settings.model ELSE "claude-sonnet-4-20250514"

\* analyzeWithAI: model || the provider's default
streamModel(settings) ==
  IF settings.model # "" THEN settings.model
  ELSE CASE settings.aiProvider = "claude" -> "claude-sonnet-4-20250514"
         [] settings.aiProvider = "openai" -> "gpt-4o"
         [] settings.aiProvider = "siliconflow" -> "deepseek-ai/DeepSeek-V3"
         [] OTHER -> "glm-4.5-air"

checkNeedsChunking(sk, model, readmeLength) ==
  LET limit == getModelContextLimit(model).n
      needsIt == needsChunking(sk, limit, readmeLength)
  IN  IF ~needsIt THEN [needsChunking |-> FALSE, estimatedChunks |-> 1]
      ELSE [needsChunking |-> TRUE,
            estimatedChunks |->
              Len(splitIntoChunks(sk, limit, estimateBaseContextTokens(sk, readmeLength)))]

\* A mutant: the catch of runAnalysis leaves the task at the stage it had
FailOutUnmarked(g, run, message, t) ==
  Out(g, [run EXCEPT !.pc = "failed", !.error = Err(message)], {})

\* The catch of runAnalysis up to its await, and, when the Map holds no task, the
\* rethrow into the catch of startBackgroundAnalysis, which then finds no task either
FailOut(g, run, message, t) ==
  IF run.key \in DOMAIN g.tasks
    THEN Out(forceSaveAnalysisState(MarkError(g, run.key, message), t),
             [run EXCEPT !.pc = "failing", !.error = Err(message)], {})
    ELSE Out(g, [run EXCEPT !.pc = "failed", !.error = Err(message)], {})

\* A mutant: the error callback records the error and returns, and so does the
\* orchestrator: the run ends without failing
OnErrorOutSwallowed(g, run, message, t) ==
  Out(g, [run EXCEPT !.events = Append(@, [cb |-> "onError", message |-> message]),
                     !.pc = "done"], {})

\* callback.onError(error) of runAnalysis: it throws the error it is given
OnErrorOut(g, run, message, t) ==
  FailOut(g, [run EXCEPT !.events = Append(@, [cb |-> "onError", message |-> message])],
          message, t)

RoundCall(run, chunk) ==
  [kind |-> "round", round |-> chunk.chunkIndex, model |-> modelToUse(run.settings),
   previousSummaries |-> IF Len(run.summaries) > 0
                           THEN formatChunkSummaryForContext(run.summaries)
                           ELSE FirstChunkMarker,
   digestOf |-> run.summaries,
   tokens |-> estimateTokens(RoundPrompt(chunk, Len(run.chunks), run.profile.info,
                                         run.summaries))]

\* A mutant: the progress event carries the zero-based chunkIndex
BeginRoundOutZeroBased(g, run, t) ==
  LET chunk == run.chunks[Len(run.summaries) + 1]
      total == Len(run.chunks)
      event == [currentChunk |-> chunk.chunkIndex, totalChunks |-> total,
                stage |-> "analyzing"]
      run1 == [run EXCEPT !.progressEvents = Append(@, event)]
      g1 == updateTask(g, run.key,
                       [chunkProgress |-> event,
                        progress |-> Percent(60) + (3500 * (chunk.chunkIndex + 1)) \div total],
                       t)
  IN  IF formatChunkSummaryThrows(run.summaries)
        THEN FailOut(g1, run1, "TypeError", t)
        ELSE Out(g1, [run1 EXCEPT !.pc = "round", !.calls = Append(@, RoundCall(run, chunk))],
                 {})

\* One iteration of `for (const chunk of chunks)` up to its await: onProgress, which
\* runAnalysis turns into an updateTask, then the prompt, then the call
BeginRoundOut(g, run, t) ==
  LET chunk == run.chunks[Len(run.summaries) + 1]
      total == Len(run.chunks)
      event == [currentChunk |-> chunk.chunkIndex + 1, totalChunks |-> total,
                stage |-> "analyzing"]
      run1 == [run EXCEPT !.progressEvents = Append(@, event)]
      g1 == updateTask(g, run.key,
                       [chunkProgress |-> event,
                        progress |-> Percent(60) + (3500 * (chunk.chunkIndex + 1)) \div total],
                       t)
  IN  IF formatChunkSummaryThrows(run.summaries)
        THEN FailOut(g1, run1, "TypeError", t)
        ELSE Out(g1, [run1 EXCEPT !.pc = "round", !.calls = Append(@, RoundCall(run, chunk))],
                 {})

FinalCall(run) ==
  [kind |-> "final", round |-> Len(run.chunks), model |-> modelToUse(run.settings),
   previousSummaries |-> formatChunkSummaryForContext(run.summaries),
   digestOf |-> run.summaries,
   tokens |-> estimateTokens(FinalPrompt(run.skeleton, run.profile.info, Len(run.chunks),
                                         run.summaries))]

\* "Phase 2": the progress report, the final prompt and the streaming call
SynthesisOut(g, run, t) ==
  LET total == Len(run.chunks)
      event == [currentChunk |-> total, totalChunks |-> total, stage |-> "generating"]
      run1 == [run EXCEPT !.progressEvents = Append(@, event)]
      g1 == updateTask(g, run.key, [chunkProgress |-> event, progress |-> Percent(95)], t)
  IN  IF formatChunkSummaryThrows(run.summaries)
        THEN FailOut(g1, run1, "TypeError", t)
        ELSE Out(g1, [run1 EXCEPT !.pc = "stream", !.calls = Append(@, FinalCall(run))], {})

\* analyzeWithChunking up to its first await
ChunkedOut(g, run, t) ==
  LET info == run.profile.info
      planned == splitIntoChunks(run.skeleton, getModelContextLimit(modelToUse(run.settings)).n,
                                 estimateBaseContextTokens(run.skeleton, readmeLengthOf(info)))
      run1 == [run EXCEPT !.chunked = TRUE, !.chunks = planned]
  IN  IF Len(planned) = 0 THEN OnErrorOut(g, run1, "No modules to analyze", t)
      ELSE BeginRoundOut(g, run1, t)

SingleCall(run) ==
  [kind |-> "single", round |-> 0, model |-> streamModel(run.settings),
   previousSummaries |-> Empty, digestOf |-> <<>>,
   tokens |-> estimateTokens(formatSkeletonForAI(run.skeleton, run.profile.info))]

\* analyzeWithAI up to the fetch of the stream function
SingleShotOut(g, run, t) ==
  Out(g, [run EXCEPT !.pc = "stream", !.calls = Append(@, SingleCall(run))], {})

(***************************************************************************)
(* background script: the analysis cache kept in chrome.storage.local.     *)
(* The cache object is a sequence of CachedAnalysis entries in the order   *)
(* of Object.entries, which is the order in which the keys were added.     *)
(***************************************************************************)
CACHE_DURATION == 7 * 24 * 60 * 60 * 1000

CachedAnalysis(repoKey, result, t) == [repoKey |-> repoKey, result |-> result, timestamp |-> t]

EntriesOf(store, repoKey) == {i \in 1..Len(store) : store[i].repoKey = repoKey}

\* cache[repoKey], Null standing for undefined
Cached(store, repoKey) ==
  IF EntriesOf(store, repoKey) = {} THEN Null
  ELSE store[CHOOSE i \in EntriesOf(store, repoKey) : TRUE]

getCachedAnalysis(store, repoKey, t) ==
  LET cached == Cached(store, repoKey)
  IN  IF cached # Null /\ t - cached.timestamp < CACHE_DURATION THEN cached ELSE Null

cleanupExpiredCache(store, t) ==
  SelectSeq(store, LAMBDA entry : ~(t - entry.timestamp >= CACHE_DURATION))

\* The entries sorted by timestamp (Array.prototype.sort is stable), less the oldest
\* quarter of them, at least one
cleanupOldestCache(store) ==
  LET toRemove == IF (Len(store) + 3) \div 4 > 1 THEN (Len(store) + 3) \div 4 ELSE 1
      rank(i) == Cardinality({j \in 1..Len(store) :
                    \/ store[j].timestamp < store[i].timestamp
                    \/ store[j].timestamp = store[i].timestamp /\ j <= i})
      kept == {i \in 1..Len(store) : rank(i) > toRemove}
      nth(n) == CHOOSE i \in kept : Cardinality({j \in kept : j < i}) = n - 1
  IN  [n \in 1..Cardinality(kept) |-> store[nth(n)]]

\* storageFull is whether getBytesInUse answered more than MAX_STORAGE_BYTES
ensureStorageSpace(store, storageFull) ==
  IF storageFull THEN cleanupOldestCache(store) ELSE store

\* cache[repoKey] = { repoKey, result, timestamp: Date.now() }
setEntry(store, repoKey, result, t) ==
  IF EntriesOf(store, repoKey) = {} THEN Append(store, CachedAnalysis(repoKey, result, t))
  ELSE [i \in 1..Len(store) |->
          IF store[i].repoKey = repoKey THEN CachedAnalysis(repoKey, result, t)
          ELSE store[i]]

cacheAnalysis(store, repoKey, result, t, storageFull) ==
  setEntry(ensureStorageSpace(cleanupExpiredCache(store, t), storageFull), repoKey, result, t)

(***************************************************************************)
(* The steps of a run.  env holds what the outside world may answer:       *)
(* the stored settings, the repositories, the module lists extraction can  *)
(* return, the backend's responses and its errors.                         *)
(***************************************************************************)
Frame == UNCHANGED <<now, reply>> /\ UNCHANGED <<planVars, pureVars, cacheVars>>

RunIds == 1..MaxRuns

\* Run r has been started and is suspended at `pc`
At(r, pc) == r \in DOMAIN runs /\ runs[r].pc = pc

\* The runs between their first await and their first backend call
Busy ==
  {r \in DOMAIN runs : runs[r].pc \in {"repoInfo", "extract", "configFiles", "files", "analyzing"}}

\* await getSettings(), then updateTask(progress 10) and the call of getRepoInfo
GetSettings(r, env) ==
  /\ At(r, "settings")
  /\ Cardinality(Busy) < env.maxBusy
  /\ \E st \in env.settings :
       Apply(r, Out(updateTask(Registry, runs[r].key, [progress |-> Percent(10)], now),
                    [runs[r] EXCEPT !.settings = st, !.pc = "repoInfo"], {}))
  /\ Frame

\* await githubAPI.getRepoInfo, then the two updates and forceSaveAnalysisState
GetRepoInfo(r, env) ==
  /\ At(r, "repoInfo")
  /\ \E profile \in env.profiles :
       LET g1 == updateTask(Registry, runs[r].key, [repoInfo |-> profile.info], now)
           g2 == updateTask(g1, runs[r].key,
                            [stage |-> "extracting", progress |-> Percent(30)], now)
       IN  Apply(r, Out(forceSaveAnalysisState(g2, now),
                        [runs[r] EXCEPT !.profile = profile, !.pc = "extract"], {}))
  /\ Frame

\* githubAPI.getRepoInfo rejects
GetRepoInfoFails(r, env) ==
  /\ At(r, "repoInfo")
  /\ \E message \in env.githubErrors : Apply(r, FailOut(Registry, runs[r], message, now))
  /\ Frame

\* onProgress of extractCodeSkeleton: updateTask(progress: 30 + p * 0.3), for each p
RECURSIVE ExtractProgress(_, _, _, _)
ExtractProgress(g, taskId, ps, t) ==
  IF ps = <<>> THEN g
  ELSE ExtractProgress(updateTask(g, taskId, [progress |-> Percent(30) + 30 * Head(ps)], t),
                       taskId, Tail(ps), t)

\* extractCodeSkeleton up to its first await: of the configuration files when there
\* are any, of the files to analyze otherwise
ExtractStart(r) ==
  /\ At(r, "extract")
  /\ LET hasConfig == runs[r].profile.config # NoConfig
     IN  Apply(r, Out(ExtractProgress(Registry, runs[r].key,
                                      IF hasConfig THEN <<10, 20>> ELSE <<10, 20, 30, 40>>,
                                      now),
                      [runs[r] EXCEPT !.pc = IF hasConfig THEN "configFiles" ELSE "files"],
                      {}))
  /\ Frame

ConfigFetched(r) ==
  /\ At(r, "configFiles")
  /\ Apply(r, Out(ExtractProgress(Registry, runs[r].key, <<30, 40>>, now),
                  [runs[r] EXCEPT !.pc = "files"], {}))
  /\ Frame

\* The file contents arrive: the rest of extractCodeSkeleton, then runAnalysis up to
\* the forceSaveAnalysisState that follows updateTask(stage 'analyzing')
FilesFetched(r, env) ==
  /\ At(r, "files")
  /\ \E modules \in env.moduleLists :
       LET run == runs[r]
           sk == MkSkeleton(run.profile, modules)
           g1 == ExtractProgress(Registry, run.key, <<70, 90, 100>>, now)
           check == checkNeedsChunking(sk, modelToUse(run.settings),
                                       readmeLengthOf(run.profile.info))
           g2 == updateTask(g1, run.key, [stage |-> "analyzing", progress |-> Percent(60)],
                            now)
       IN  IF ~run.settings.apiKey
             THEN Apply(r, FailOut(g1, [run EXCEPT !.skeleton = sk],
                                   "API key not configured", now))
             ELSE Apply(r, Out(forceSaveAnalysisState(g2, now),
                               [run EXCEPT !.skeleton = sk, !.pc = "analyzing",
                                           !.useChunking = check.needsChunking,
                                           !.estimatedChunks = check.estimatedChunks],
                               {}))
  /\ Frame

\* if (useChunking && estimatedChunks > 1) analyzeWithChunking else analyzeWithAI
StartAI(r) ==
  /\ At(r, "analyzing")
  /\ Apply(r, IF runs[r].useChunking /\ runs[r].estimatedChunks > 1
                THEN ChunkedOut(Registry, runs[r], now)
                ELSE SingleShotOut(Registry, runs[r], now))
  /\ Frame

\* callAINonStreaming returns: the summary is parsed and pushed, and the loop goes on
\* to the next chunk or leaves for the final report
RoundResponse(r, env) ==
  /\ At(r, "round")
  /\ \E response \in env.responses :
       LET run == runs[r]
           summary == parseChunkSummary(response, Len(run.summaries))
           run1 == [run EXCEPT !.responses = Append(@, response),
                               !.summaries = Append(@, summary)]
       IN  Apply(r, IF Len(run1.summaries) < Len(run.chunks)
                      THEN BeginRoundOut(Registry, run1, now)
                      ELSE SynthesisOut(Registry, run1, now))
  /\ Frame

\* callAINonStreaming throws: catch, callback.onError(error), return
RoundFails(r, env) ==
  /\ At(r, "round")
  /\ \E message \in env.backendErrors : Apply(r, OnErrorOut(Registry, runs[r], message, now))
  /\ Frame

\* The stream function throws before its try: !response.ok, or no response body
StreamRejected(r, env) ==
  /\ At(r, "stream")
  /\ runs[r].fullText = 0
  /\ \E message \in env.backendErrors : Apply(r, FailOut(Registry, runs[r], message, now))
  /\ Frame

\* callback.onToken(token)
StreamToken(r) ==
  /\ At(r, "stream")
  /\ runs[r].fullText < MaxStreamTokens
  /\ LET run == [runs[r] EXCEPT !.fullText = @ + 1]
     IN  IF run.key \in DOMAIN activeTasks
           THEN Apply(r, Out(updateTask(Registry, run.key,
                                        [analysis |-> Text(r, run.fullAnalysis + 1)], now),
                             [run EXCEPT !.fullAnalysis = @ + 1], {}))
           ELSE Apply(r, Out(Registry, run, {}))
  /\ Frame

\* reader.read() rejects inside the try: catch, callback.onError(error)
StreamError(r, env) ==
  /\ At(r, "stream")
  /\ \E message \in env.backendErrors : Apply(r, OnErrorOut(Registry, runs[r], message, now))
  /\ Frame

\* The stream ends: callback.onComplete(fullText) up to its first await
StreamComplete(r) ==
  /\ At(r, "stream")
  /\ LET run == [runs[r] EXCEPT
                   !.events = Append(@, [cb |-> "onComplete", message |-> ""])]
         updates == IF run.chunked
                      THEN [analysis |-> Text(r, run.fullText), stage |-> "complete",
                            progress |-> Percent(100), chunkProgress |-> Null]
                      ELSE [analysis |-> Text(r, run.fullText), stage |-> "complete",
                            progress |-> Percent(100)]
     IN  IF run.key \in DOMAIN activeTasks
           THEN Apply(r, Out(forceSaveAnalysisState(
                               updateTask(Registry, run.key, updates, now), now),
                             [run EXCEPT !.pc = "completing"], {}))
           ELSE Apply(r, Out(Registry, [run EXCEPT !.pc = "done"], {}))
  /\ Frame

\* The rest of onComplete: cacheAnalysis, addHistoryEntry, scheduleTaskCleanup
CompleteTail(r) ==
  /\ At(r, "completing")
  /\ \E storageFull \in BOOLEAN :
       cache' = cacheAnalysis(cache, runs[r].key, Text(r, runs[r].fullText), now, storageFull)
  /\ UNCHANGED cacheOps
  /\ Apply(r, Out(Registry, [runs[r] EXCEPT !.pc = "done"],
                  {CleanupTimer(runs[r].key, now)}))
  /\ UNCHANGED <<now, reply>>
  /\ UNCHANGED <<planVars, pureVars>>

\* The catch of runAnalysis after its await: scheduleTaskCleanup and the rethrow into
\* the catch of startBackgroundAnalysis
FailTail(r) ==
  /\ At(r, "failing")
  /\ LET run == runs[r]
     IN  IF run.key \in DOMAIN activeTasks
           THEN Apply(r, Out(forceSaveAnalysisState(
                               MarkError(Registry, run.key, run.error.message), now),
                             [run EXCEPT !.pc = "failed"], {CleanupTimer(run.key, now)}))
           ELSE Apply(r, Out(Registry, [run EXCEPT !.pc = "failed"], {}))
  /\ Frame

(***************************************************************************)
(* One run in depth: the inputs are large enough for the budgets of the    *)
(* model table, and the backend answers each round in every way            *)
(***************************************************************************)
Settings(aiProvider, model, apiKey) ==
  [aiProvider |-> aiProvider, model |-> model, apiKey |-> apiKey]

\* Modules of some 12500, 12000, 26000, 11000 and 12 estimated tokens
BigModulePool ==
  << Mod(<<"lib", "util.ts">>, <<>>,
         <<Fn(S("fmt"), Txt(0, 49900), NoText, FALSE, FALSE)>>, <<>>),
     Mod(<<"src", "core.ts">>, <<>>,
         <<Fn(S("run"), Txt(0, 47900), NoText, TRUE, FALSE)>>, <<S("run")>>),
     Mod(<<"gen", "schema.ts">>, <<>>,
         <<Fn(S("schema"), Txt(0, 103900), NoText, TRUE, FALSE)>>, <<>>),
     Mod(<<"src", "api.ts">>, <<Cls(S("Api"), NoText, TRUE)>>,
         <<Fn(S("call"), Txt(0, 43900), S("Promise<void>"), TRUE, TRUE)>>, <<>>),
     Mod(<<"main.ts">>, <<>>, <<Fn(S("main"), Empty, NoText, FALSE, TRUE)>>, <<>>) >>

\* The sub-lists of the pool of at most MaxModules modules, in the pool's order
BigModuleLists ==
  { SelectSeq(BigModulePool, LAMBDA m : m \in chosen) :
      chosen \in { c \in SUBSET { BigModulePool[i] : i \in 1..Len(BigModulePool) } :
                     Cardinality(c) <= MaxModules } }

\* A directory of 35 files: more than formatDirectoryStructure shows
MidTree ==
  RootNode(<<DirNode(S("src"), [f \in 1..35 |-> FileNode(Txt(0, 10))]),
             FileNode(S("main.ts")), FileNode(S("package.json"))>>)

RunProfiles ==
  { [structure |-> SmallTree, config |-> NoConfig, entryPoints |-> <<>>,
     info |-> Info(Empty, Empty)],
    [structure |-> MidTree, config |-> NpmConfig, entryPoints |-> <<S("main.ts")>>,
     info |-> Info(S("Demo project"), Txt(0, 3001))],
    \* a package.json of 96000 characters: the base estimate alone is over 25600
    [structure |-> SmallTree, config |-> [NpmConfig EXCEPT !.raw = Txt(0, 96000)],
     entryPoints |-> <<>>, info |-> Info(Empty, Empty)] }

ModuleNote(path, responsibility, keyFunctions) ==
  JObj([path |-> JStr(path), responsibility |-> JStr(responsibility),
        keyFunctions |-> JArr(keyFunctions)])

\* A summary of the schema the system prompt asks for
GoodSummaryJson ==
  JObj([moduleResponsibilities |->
          JArr(<<ModuleNote(S("src/core.ts"), Txt(0, 80), <<JStr(S("run")), JStr(S("stop"))>>)>>),
        architecturePatterns |-> JArr(<<JStr(S("MVC"))>>),
        dependencies |-> JObj([internal |-> JArr(<<>>), external |-> JArr(<<JStr(S("react"))>>)]),
        potentialRisks |-> JArr(<<JStr(Txt(0, 60))>>),
        techStack |-> JArr(<<JStr(S("TypeScript")), JStr(S("React"))>>)])

\* The same schema with long texts: some 3000 estimated tokens, within max_tokens 4096
LongSummaryJson ==
  JObj([moduleResponsibilities |->
          JArr(<<ModuleNote(S("src/core.ts"), Txt(0, 6000), <<JStr(S("run"))>>),
                 ModuleNote(S("src/api.ts"), Txt(0, 5000), <<>>)>>),
        architecturePatterns |-> JArr(<<JStr(Txt(0, 400))>>),
        potentialRisks |-> JArr(<<JStr(Txt(0, 600))>>),
        techStack |-> JArr(<<JStr(S("TypeScript"))>>)])

ResponsePool ==
  { Response(TRUE, GoodSummaryJson),
    Response(TRUE, LongSummaryJson),
    Response(FALSE, JUndef),                                  \* not JSON
    Response(TRUE, JNull),                                    \* null
    Response(TRUE, JNum(42)),                                 \* a non-object
    Response(TRUE, JObj([chunkIndex |-> JNum(7),                     \* fields missing,
                         techStack |-> JArr(<<JStr(S("Go"))>>)])),   \* an index of its own
    Response(TRUE, JObj([architecturePatterns |-> JStr(S("MVC"))])), \* a wrong-typed field
    Response(TRUE, JObj([moduleResponsibilities |->                   \* an entry without
                           JArr(<<JObj([path |-> JStr(S("src/core.ts")),  \* keyFunctions
                                        responsibility |-> JStr(Txt(0, 40))])>>)])) }

(***************************************************************************)
(* parseChunkSummary applied to a response body, bare and inside a fence   *)
(***************************************************************************)
FencePieces ==
  { Ws, Ticks, Lang, Prose, Doc(GoodSummaryJson), Doc(JNull),
    Doc(JObj([techStack |-> JArr(<<JStr(S("Go"))>>)])) }

FenceBodies == UNION { [1..n -> FencePieces] : n \in 0..MaxBody }

\* `lang`: the fence is ```json; `inner`: whitespace between fence and body;
\* `outer`: whitespace around the fenced block
FenceWraps == [lang : BOOLEAN, inner : BOOLEAN, outer : BOOLEAN]

Pad(on) == IF on THEN <<Ws>> ELSE <<>>

Wrap(body, w) ==
  Pad(w.outer) \o <<Ticks>> \o (IF w.lang THEN <<Lang>> ELSE <<>>) \o Pad(w.inner)
    \o body \o Pad(w.inner) \o <<Ticks>> \o Pad(w.outer)

FenceInit ==
  /\ NoPlan
  /\ NoTasks
  /\ NoCache
  /\ input \in [body : FenceBodies, wrap : FenceWraps, chunkIndex : 0..1]
  /\ output = Null
  /\ purePc = "ready"

ParseBareAndFenced ==
  /\ purePc = "ready"
  /\ input \in [body : FenceBodies, wrap : FenceWraps, chunkIndex : 0..1]
  /\ output' = [bare |-> parseChunkSummaryOfText(input.body, input.chunkIndex),
                fenced |-> parseChunkSummaryOfText(Wrap(input.body, input.wrap),
                                                   input.chunkIndex)]
  /\ purePc' = "done"
  /\ UNCHANGED <<input, planVars, taskVars, cacheVars>>

FenceNext == ParseBareAndFenced

SpecFence == FenceInit /\ [][FenceNext]_vars

\* C18: a response body inside a ```json or ``` fence, whitespace around it or not,
\* parses to the same ChunkSummary as the body alone
C18_FencedParsesAsBare ==
  purePc = "done" /\ "bare" \in DOMAIN output => output.fenced = output.bare

\* The body, trimmed, neither begins nor ends with a fence of its own, and is not
\* glued to a bare ``` so that its first letters read as the fence's json tag
PlainBody ==
  /\ ~startsWith(trim(input.body), <<Ticks>>)
  /\ ~endsWith(trim(input.body), <<Ticks>>)
  /\ ~(~input.wrap.lang /\ ~input.wrap.inner /\ startsWith(input.body, <<Lang>>))

\* C18 amended: the same for every body that carries no fence of its own at either end
C18_PlainBodyFencedParsesAsBare ==
  purePc = "done" /\ "bare" \in DOMAIN output /\ PlainBody => output.fenced = output.bare

\* A fenced JSON document was parsed, and to more than the empty summary
C18_Witness ==
  /\ purePc = "done"
  /\ "bare" \in DOMAIN output
  /\ PlainBody
  /\ input.body = <<Doc(GoodSummaryJson)>>
  /\ input.wrap = [lang |-> TRUE, inner |-> TRUE, outer |-> TRUE]
  /\ output.fenced # EmptySummary(input.chunkIndex)

(***************************************************************************)
(* estimateTokens applied to a text given by its code points: `dense` in   *)
(* U+4E00..U+9FFF, `other` elsewhere in the basic plane, `astral` above    *)
(* U+FFFF.  A JavaScript string holds two units for an astral code point,  *)
(* text.length counts units and the class [\u4e00-\u9fff] matches units.   *)
(***************************************************************************)
CodePointTexts == [dense : 0..MaxChars, other : 0..MaxChars, astral : 0..MaxChars]

Utf16Of(cps) == Txt(cps.dense, cps.other + 2 * cps.astral)

EstimateInit ==
  /\ NoPlan
  /\ NoTasks
  /\ NoCache
  /\ input \in CodePointTexts
  /\ output = Null
  /\ purePc = "ready"

Estimate ==
  /\ purePc = "ready"
  /\ input \in CodePointTexts
  /\ output' = [tokens |-> estimateTokens(Utf16Of(input)),
                again |-> estimateTokens(Utf16Of(input))]
  /\ purePc' = "done"
  /\ UNCHANGED <<input, planVars, taskVars, cacheVars>>

EstimateNext == Estimate

SpecEstimate == EstimateInit /\ [][EstimateNext]_vars

\* n = ceil(dense / 1.5 + other / 4): the least integer with n >= (8 dense + 3 other) / 12
IsCeilOfRates(n, dense, other) ==
  /\ n \in Int
  /\ 12 * n >= 8 * dense + 3 * other
  /\ 12 * (n - 1) < 8 * dense + 3 * other

Estimated == purePc = "done" /\ "tokens" \in DOMAIN output

\* C19: estimateTokens(text) is an integer >= 0 equal to ceil(denseCount/1.5 + otherCount/4),
\* denseCount the characters in U+4E00..U+9FFF and otherCount all other characters;
\* the empty string gives 0 and a second call gives the same
C19_CeilOfCharacterRates ==
  Estimated =>
    /\ output.tokens \in Nat
    /\ IsCeilOfRates(output.tokens, input.dense, input.other + input.astral)
    /\ (input.dense + input.other + input.astral = 0 => output.tokens = 0)
    /\ output.again = output.tokens

\* C19 amended: the same with otherCount the UTF-16 code units outside U+4E00..U+9FFF
C19_CeilOfUnitRates ==
  Estimated =>
    /\ output.tokens \in Nat
    /\ IsCeilOfRates(output.tokens, input.dense, input.other + 2 * input.astral)
    /\ (input.dense + input.other + input.astral = 0 => output.tokens = 0)
    /\ output.again = output.tokens

\* A text of all three kinds was estimated and the sum of the rates was rounded up
C19_Witness ==
  /\ Estimated
  /\ input.dense > 0 /\ input.other > 0 /\ input.astral > 0
  /\ (8 * input.dense + 3 * (input.other + 2 * input.astral)) % 12 # 0
  /\ output.tokens > 0

(***************************************************************************)
(* getModelContextLimit and getRawModelContextLimit applied to one model   *)
(* identifier, in either order                                             *)
(***************************************************************************)
UnlistedModels ==
  { "", "gpt-4", "gpt-3.5-turbo", "GPT-4O", "gpt-4o ", "claude-3-opus-20240229",
    "glm-4", "deepseek-chat" }

ModelIds == DOMAIN MODEL_CONTEXT_LIMITS \cup UnlistedModels \cup ObjectPrototypeKeys

LimitsInit ==
  /\ NoPlan
  /\ NoTasks
  /\ NoCache
  /\ input \in ModelIds
  /\ output = [limit |-> Null, raw |-> Null]
  /\ purePc = "ready"

CallLimit ==
  /\ purePc \in {"ready", "raw"}
  /\ input \in ModelIds
  /\ output' = [output EXCEPT !.limit = getModelContextLimit(input)]
  /\ purePc' = IF purePc = "ready" THEN "limit" ELSE "done"
  /\ UNCHANGED <<input, planVars, taskVars, cacheVars>>

CallRaw ==
  /\ purePc \in {"ready", "limit"}
  /\ input \in ModelIds
  /\ output' = [output EXCEPT !.raw = getRawModelContextLimit(input)]
  /\ purePc' = IF purePc = "ready" THEN "raw" ELSE "done"
  /\ UNCHANGED <<input, planVars, taskVars, cacheVars>>

LimitsNext == CallLimit \/ CallRaw

SpecLimits == LimitsInit /\ [][LimitsNext]_vars

\* The raw limit the claim names: the table entry, 32000 for a name not in the table
TableOrDefault(model) ==
  IF model \in DOMAIN MODEL_CONTEXT_LIMITS THEN MODEL_CONTEXT_LIMITS[model] ELSE 32000

\* C20: for every model identifier the raw limit is the table entry or 32000, and the
\* context limit is floor(0.8 * raw limit), 25600 for a name not in the table
C20_LimitIsFourFifthsOfRaw ==
  purePc = "done" /\ "limit" \in DOMAIN output =>
    /\ output.raw = [t |-> "number", n |-> TableOrDefault(input)]
    /\ output.limit = [t |-> "number", n |-> (TableOrDefault(input) * 8) \div 10]
    /\ (input \notin DOMAIN MODEL_CONTEXT_LIMITS => output.limit = [t |-> "number", n |-> 25600])

RunEnv ==
  [settings |-> { Settings("siliconflow", "Qwen/Qwen2.5-72B-Instruct", TRUE),
                  Settings("siliconflow", "deepseek-ai/DeepSeek-V3", TRUE),
                  Settings("openai", "", TRUE),
                  Settings("bigmodel", "glm-4-flash", FALSE) },
   profiles |-> RunProfiles,
   moduleLists |-> BigModuleLists,
   responses |-> ResponsePool,
   backendErrors |-> {"API error: 401 - invalid api key", "Failed to fetch"},
   githubErrors |-> {"GitHub API error: 404"},
   maxRuns |-> 1,
   maxBusy |-> 1]

\* The state START_ANALYSIS leaves for one repository: its task registered and saved,
\* its run about to read the settings
RunInit ==
  /\ NoPlan
  /\ NoPure
  /\ NoCache
  /\ activeTasks = ("octo/demo" :> NewTask("octo/demo", StartTime))
  /\ lastSaveTimes = NoMap
  /\ session = [present |-> TRUE, tasks |-> activeTasks]
  /\ timers = {}
  /\ runs = <<NewRun("octo/demo")>>
  /\ now = StartTime
  /\ reply = Null

RunNext ==
  \E r \in RunIds :
    \/ GetSettings(r, RunEnv)
    \/ GetRepoInfo(r, RunEnv)
    \/ GetRepoInfoFails(r, RunEnv)
    \/ ExtractStart(r)
    \/ ConfigFetched(r)
    \/ FilesFetched(r, RunEnv)
    \/ StartAI(r)
    \/ RoundResponse(r, RunEnv)
    \/ RoundFails(r, RunEnv)
    \/ StreamRejected(r, RunEnv)
    \/ StreamToken(r)
    \/ StreamError(r, RunEnv)
    \/ StreamComplete(r)
    \/ CompleteTail(r)
    \/ FailTail(r)

SpecRun == RunInit /\ [][RunNext]_vars

\* What is bound to happen to a run: every call to the repository source and to the
\* backend returns or fails, a stream ends, and the continuation of every await is
\* run.  No run stays for ever at one await
RunFairness ==
  /\ \A r \in RunIds : WF_vars(CompleteTail(r) \/ FailTail(r))
  /\ \A r \in RunIds :
       \A pc \in {"settings", "repoInfo", "extract", "configFiles", "files", "analyzing",
                  "round", "stream"} : []<>~At(r, pc)

LiveRun == SpecRun /\ RunFairness

(***************************************************************************)
(* background script: the message handler (START_ANALYSIS,                 *)
(* GET_ANALYSIS_STATE, CANCEL_ANALYSIS), the cleanup timers and the clock  *)
(***************************************************************************)
\* `${owner}/${repo}` of the repositories that are asked for, in the order of their
\* first START_ANALYSIS
Keys == <<"o/a", "o/b", "o/c", "o/d">>

Started(k) == \E r \in DOMAIN runs : runs[r].key = Keys[k]

\* The keys a message may name: those started, and the next one
Askable(k) == IF k = 1 THEN TRUE ELSE Started(k - 1)

runningCount == Cardinality({id \in DOMAIN activeTasks : Running(activeTasks[id])})

\* new Error(`最多同时分析 ${MAX_CONCURRENT_TASKS} 个仓库`): at most 3 repositories at a time
TooManyMessage == "at most 3 repositories can be analysed at the same time"

MessageFrame == UNCHANGED now /\ UNCHANGED <<planVars, pureVars, cacheVars>>

\* sendResponse({ success: true, data }) and, from the catch of handleMessage,
\* sendResponse({ success: false, error }); of the data only its presence is kept
Reply(type, success, error) == [type |-> type, success |-> success, error |-> error]

\* handleMessage START_ANALYSIS: startBackgroundAnalysis up to the call of runAnalysis
StartAnalysis(k, env) ==
  /\ Askable(k)
  /\ LET taskId == Keys[k]
     IN  IF taskId \in DOMAIN activeTasks /\ Running(activeTasks[taskId])
           THEN /\ reply' = Reply("START_ANALYSIS", TRUE, "")
                /\ UNCHANGED <<activeTasks, lastSaveTimes, session, timers, runs>>
         ELSE IF runningCount >= MAX_CONCURRENT_TASKS
           THEN /\ reply' = Reply("START_ANALYSIS", FALSE, TooManyMessage)
                /\ UNCHANGED <<activeTasks, lastSaveTimes, session, timers, runs>>
         ELSE /\ Len(runs) < env.maxRuns
              /\ LET g == forceSaveAnalysisState(
                            [Registry EXCEPT
                               !.tasks = (taskId :> NewTask(taskId, now)) @@ activeTasks],
                            now)
                 IN  /\ Commit(g)
                     /\ reply' = Reply("START_ANALYSIS", TRUE, "")
              /\ runs' = Append(runs, NewRun(taskId))
              /\ UNCHANGED timers
  /\ MessageFrame

\* handleMessage CANCEL_ANALYSIS: clearAnalysisState
CancelAnalysis(k) ==
  /\ Askable(k)
  /\ Commit(forceSaveAnalysisState(
              [Registry EXCEPT !.tasks = Without(activeTasks, Keys[k]),
                               !.saves = Without(lastSaveTimes, Keys[k])],
              now))
  /\ reply' = Reply("CANCEL_ANALYSIS", TRUE, "")
  /\ UNCHANGED <<timers, runs>>
  /\ MessageFrame

\* handleMessage GET_ANALYSIS_STATE: getAnalysisState restores the task from the
\* session copy when the Map has none, and fails a task that has not been updated
\* for ANALYSIS_TIMEOUT
GetAnalysisState(k) ==
  /\ Askable(k)
  /\ LET taskId == Keys[k]
         restored ==
           IF taskId \notin DOMAIN activeTasks /\ session.present
              /\ taskId \in DOMAIN session.tasks
             THEN [Registry EXCEPT !.tasks = (taskId :> session.tasks[taskId]) @@ activeTasks]
             ELSE Registry
     IN  IF taskId \notin DOMAIN restored.tasks
           THEN /\ reply' = Reply("GET_ANALYSIS_STATE", TRUE, "")
                /\ UNCHANGED <<activeTasks, lastSaveTimes, session>>
         ELSE LET task == restored.tasks[taskId]
                  g == IF Running(task) /\ now - task.lastUpdatedAt > ANALYSIS_TIMEOUT
                         THEN forceSaveAnalysisState(
                                MarkError(restored, taskId,
                                          "Analysis timed out. Please try again."), now)
                         ELSE restored
              IN  /\ Commit(g)
                  /\ reply' = Reply("GET_ANALYSIS_STATE", TRUE, "")
  /\ UNCHANGED <<timers, runs>>
  /\ MessageFrame

\* The callback scheduleTaskCleanup gave to setTimeout
CleanupFires ==
  /\ \E timer \in timers :
       /\ now >= timer.due
       /\ timers' = timers \ {timer}
       /\ IF timer.id \in DOMAIN activeTasks
             /\ activeTasks[timer.id].stage \in {"complete", "error"}
            THEN Commit(saveAnalysisState(
                          [Registry EXCEPT !.tasks = Without(activeTasks, timer.id),
                                           !.saves = Without(lastSaveTimes, timer.id)]))
            ELSE UNCHANGED <<activeTasks, lastSaveTimes, session>>
  /\ UNCHANGED <<runs, now, reply>>
  /\ UNCHANGED <<planVars, pureVars, cacheVars>>

\* Time passes: long enough for ANALYSIS_TIMEOUT and TASK_CLEANUP_DELAY to expire
Tick ==
  /\ now + ANALYSIS_TIMEOUT + 1 <= MaxClock
  /\ now' = now + ANALYSIS_TIMEOUT + 1
  /\ UNCHANGED <<activeTasks, lastSaveTimes, session, timers, runs, reply>>
  /\ UNCHANGED <<planVars, pureVars, cacheVars>>

\* What the outside world answers in the registry model: one repository, with a
\* package.json, whose skeleton needs two chunks under the configured model
TaskEnv ==
  [settings |-> {Settings("siliconflow", "Qwen/Qwen2.5-72B-Instruct", TRUE)},
   profiles |-> {[structure |-> RootNode(<<FileNode(S("main.ts"))>>), config |-> NpmConfig,
                  entryPoints |-> <<>>, info |-> Info(Empty, Empty)]},
   moduleLists |-> {<<BigModulePool[1], BigModulePool[2]>>},
   responses |-> {Response(FALSE, JUndef)},
   backendErrors |-> {"Failed to fetch"},
   githubErrors |-> {"GitHub API error: 404"},
   maxRuns |-> MaxTaskRuns,
   maxBusy |-> MaxBusy]

TasksInit ==
  /\ NoPlan
  /\ NoPure
  /\ NoCache
  /\ activeTasks = NoMap
  /\ lastSaveTimes = NoMap
  /\ session = [present |-> FALSE, tasks |-> NoMap]
  /\ timers = {}
  /\ runs = <<>>
  /\ now = StartTime
  /\ reply = Null

\* The messages and the runs, before any timeout or cleanup delay has passed
TasksNext ==
  \/ \E k \in 1..Len(Keys) : StartAnalysis(k, TaskEnv) \/ CancelAnalysis(k) \/ GetAnalysisState(k)
  \/ \E r \in RunIds :
       \/ GetSettings(r, TaskEnv)
       \/ GetRepoInfo(r, TaskEnv)
       \/ GetRepoInfoFails(r, TaskEnv)
       \/ ExtractStart(r)
       \/ ConfigFetched(r)
       \/ FilesFetched(r, TaskEnv)
       \/ StartAI(r)
       \/ RoundResponse(r, TaskEnv)
       \/ RoundFails(r, TaskEnv)
       \/ StreamRejected(r, TaskEnv)
       \/ StreamToken(r)
       \/ StreamError(r, TaskEnv)
       \/ StreamComplete(r)
       \/ CompleteTail(r)
       \/ FailTail(r)

SpecTasks == TasksInit /\ [][TasksNext]_vars

\* Runs started and cancelled by messages, every await of every run returning
LiveTasks == SpecTasks /\ RunFairness

\* The same with the clock and the cleanup timers, for fewer runs
ClockEnv == [TaskEnv EXCEPT !.maxRuns = MaxClockRuns]

ClockNext ==
  \/ \E k \in 1..Len(Keys) : StartAnalysis(k, ClockEnv) \/ CancelAnalysis(k) \/ GetAnalysisState(k)
  \/ CleanupFires
  \/ Tick
  \/ \E r \in RunIds :
       \/ GetSettings(r, ClockEnv)
       \/ GetRepoInfo(r, ClockEnv)
       \/ GetRepoInfoFails(r, ClockEnv)
       \/ ExtractStart(r)
       \/ ConfigFetched(r)
       \/ FilesFetched(r, ClockEnv)
       \/ StartAI(r)
       \/ RoundResponse(r, ClockEnv)
       \/ RoundFails(r, ClockEnv)
       \/ StreamRejected(r, ClockEnv)
       \/ StreamToken(r)
       \/ StreamError(r, ClockEnv)
       \/ StreamComplete(r)
       \/ CompleteTail(r)
       \/ FailTail(r)

SpecClock == TasksInit /\ [][ClockNext]_vars

\* What is bound to happen: time passes, the timers fire, and every await of a run
\* other than that of a backend response returns. No backend has to answer and no
\* page has to send a message. The steps FilesFetched and StartAI are enabled exactly
\* at "files" and "analyzing" and leave them, so that their fairness is stated by
\* the position of the run.
ClockFairness ==
  /\ WF_vars(Tick)
  /\ WF_vars(CleanupFires)
  /\ \A r \in RunIds :
       /\ WF_vars(\/ GetSettings(r, ClockEnv)
                  \/ GetRepoInfo(r, ClockEnv)
                  \/ ExtractStart(r)
                  \/ ConfigFetched(r)
                  \/ CompleteTail(r)
                  \/ FailTail(r))
       /\ []<>~At(r, "files")
       /\ []<>~At(r, "analyzing")

LiveClock == SpecClock /\ ClockFairness

\* The same repository without configuration files, and more runs
StartsEnv ==
  [TaskEnv EXCEPT !.profiles = {[structure |-> RootNode(<<FileNode(S("main.ts"))>>),
                                 config |-> NoConfig,
                                 entryPoints |-> <<>>, info |-> Info(Empty, Empty)]},
                  !.maxRuns = MaxRuns]

\* The beginnings of the behaviours of the background script: every run goes up to
\* its first backend call, whose response has not arrived yet
StartsNext ==
  \/ \E k \in 1..Len(Keys) :
       StartAnalysis(k, StartsEnv) \/ CancelAnalysis(k) \/ GetAnalysisState(k)
  \/ \E r \in RunIds :
       \/ GetSettings(r, StartsEnv)
       \/ GetRepoInfo(r, StartsEnv)
       \/ ExtractStart(r)
       \/ FilesFetched(r, StartsEnv)
       \/ StartAI(r)

SpecStarts == TasksInit /\ [][StartsNext]_vars

\* The same beginnings for fewer runs, with the clock
PairEnv == [StartsEnv EXCEPT !.maxRuns = MaxPairRuns]

PairNext ==
  \/ \E k \in 1..Len(Keys) :
       StartAnalysis(k, PairEnv) \/ CancelAnalysis(k) \/ GetAnalysisState(k)
  \/ Tick
  \/ \E r \in RunIds :
       \/ GetSettings(r, PairEnv)
       \/ GetRepoInfo(r, PairEnv)
       \/ ExtractStart(r)
       \/ FilesFetched(r, PairEnv)
       \/ StartAI(r)

SpecPair == TasksInit /\ [][PairNext]_vars

(***************************************************************************)
(* prompts/chunked.ts and ai/index.ts: the round template and its five     *)
(* replace calls.  A string is a sequence of atoms: a stretch of plain     *)
(* text, the characters of a placeholder "{name}", or one of the           *)
(* replacement patterns "$&" and "$$" of String.prototype.replace.         *)
(***************************************************************************)
Lit(s) == [a |-> "text", s |-> s]
Placeholder(name) == [a |-> "placeholder", s |-> name]
DollarAmp == [a |-> "$&", s |-> ""]
DollarDollar == [a |-> "$$", s |-> ""]

CHUNK_ANALYSIS_USER_PROMPT ==
  << Lit("Analyze chunk "), Placeholder("chunkIndex"), Lit(" of "),
     Placeholder("totalChunks"), Lit(" from this codebase.\n\n"),
     Placeholder("previousSummaries"), Lit("\n\n## Project Context\n"),
     Placeholder("projectContext"), Lit("\n\n## Modules to Analyze (Chunk "),
     Placeholder("chunkIndex"), Lit("/"), Placeholder("totalChunks"), Lit(")\n"),
     Placeholder("modules"), Lit("\n\nOutput your analysis as a JSON object ...") >>

\* What a replacement string inserts for the match "{name}": "$&" is the match, "$$" a "$"
Replacement(value, name) ==
  [i \in 1..Len(value) |->
     IF value[i] = DollarAmp THEN Placeholder(name)
     ELSE IF value[i] = DollarDollar THEN Lit("$")
     ELSE value[i]]

\* text.replace('{name}', value): the first occurrence only
replace(text, name, value) ==
  LET hits == {i \in 1..Len(text) : text[i] = Placeholder(name)}
      first == CHOOSE i \in hits : \A j \in hits : i <= j
  IN  IF hits = {} THEN text
      ELSE SubSeq(text, 1, first - 1) \o Replacement(value, name)
           \o SubSeq(text, first + 1, Len(text))

\* String(n)
StringOfNumber(n) == <<Lit(ToString(n))>>

\* The userPrompt of a round, from the values of analyzeWithChunking
roundUserPrompt(v) ==
  replace(replace(replace(replace(replace(CHUNK_ANALYSIS_USER_PROMPT,
    "chunkIndex", StringOfNumber(v.chunkIndex + 1)),
    "totalChunks", StringOfNumber(v.totalChunks)),
    "previousSummaries", v.previousSummaries),
    "projectContext", v.projectContext),
    "modules", v.modules)

\* Digests of earlier summaries: the marker of round 0, a digest, digests quoting a
\* backend that wrote a placeholder or a dollar pattern
PromptSummaries ==
  { <<Lit("This is the first chunk, no previous summaries.")>>,
    <<Lit("## Analysis Summary from Previous Chunks ...")>>,
    <<Lit("### Potential Risks\n- unreplaced "), Placeholder("modules"), Lit(" in template")>>,
    <<Lit("### Tech Stack\n"), Placeholder("projectContext")>>,
    <<Lit("### Tech Stack\njQuery "), DollarAmp>> }

\* Project contexts: the description of the repository is free text
PromptContexts ==
  { <<Lit("Project: octo/demo\nLanguage: TypeScript\nDescription: N/A")>>,
    <<Lit("Project: octo/tpl\nLanguage: TypeScript\nDescription: fills "), Placeholder("modules")>>,
    <<Lit("Project: octo/cash\nLanguage: TypeScript\nDescription: costs "), DollarDollar>> }

\* Module listings: names and parameters are taken from the source files
PromptModules ==
  { <<Lit("### main.ts\nFunctions:\n  - function main()\n")>>,
    <<Lit("### dom.ts\nFunctions:\n  - function "), DollarDollar, Lit("(sel)\n")>>,
    <<Lit("### tpl.ts\nExports: "), Placeholder("chunkIndex"), Lit("\n")>> }

PromptInputs ==
  [chunkIndex : 0..1, totalChunks : {2}, previousSummaries : PromptSummaries,
   projectContext : PromptContexts, modules : PromptModules]

PromptInit ==
  /\ NoPlan
  /\ NoTasks
  /\ NoCache
  /\ input \in PromptInputs
  /\ output = Null
  /\ purePc = "ready"

BuildRoundPrompt ==
  /\ purePc = "ready"
  /\ output' = roundUserPrompt(input)
  /\ purePc' = "done"
  /\ UNCHANGED <<input, planVars, taskVars, cacheVars>>

PromptNext == BuildRoundPrompt

SpecPrompt == PromptInit /\ [][PromptNext]_vars

\* The template with every placeholder replaced by its value, each in its own slot
Substituted(v) ==
  Flatten([i \in 1..Len(CHUNK_ANALYSIS_USER_PROMPT) |->
     LET atom == CHUNK_ANALYSIS_USER_PROMPT[i]
     IN  IF atom = Placeholder("chunkIndex") THEN StringOfNumber(v.chunkIndex + 1)
         ELSE IF atom = Placeholder("totalChunks") THEN StringOfNumber(v.totalChunks)
         ELSE IF atom = Placeholder("previousSummaries") THEN v.previousSummaries
         ELSE IF atom = Placeholder("projectContext") THEN v.projectContext
         ELSE IF atom = Placeholder("modules") THEN v.modules
         ELSE <<atom>>])

\* C37: in every round prompt every occurrence of every placeholder of the round
\* template ({chunkIndex}, {totalChunks}, {previousSummaries}, {projectContext},
\* {modules}) has been replaced by its value, each value in the template's own slot
\* and not inside text an earlier substitution inserted, and no literal placeholder
\* of the template remains
C37_RoundSubstitutionComplete ==
  purePc = "done" => output = Substituted(input)

\* Values without placeholders and dollar patterns
PlainValue(value) == \A i \in 1..Len(value) : value[i].a = "text"

\* What the model finds instead: with plain values the first occurrence of every
\* placeholder holds its value and the heading keeps "{chunkIndex}/{totalChunks}"
C37_FirstOccurrencesSubstituted ==
  (/\ purePc = "done"
   /\ PlainValue(input.previousSummaries)
   /\ PlainValue(input.projectContext)
   /\ PlainValue(input.modules))
    => /\ Len(output) = Len(CHUNK_ANALYSIS_USER_PROMPT)
       /\ \A i \in 1..Len(output) :
            output[i] = IF i \in {10, 12} THEN CHUNK_ANALYSIS_USER_PROMPT[i]
                        ELSE Substituted(input)[i]

(***************************************************************************)
(* The analysis cache on its own: the messages of the cache and the clock   *)
(***************************************************************************)
CacheReply(type, data) == [type |-> type, success |-> TRUE, data |-> data]

CacheRepoKeys == {"octo/demo", "octo/other"}

\* The result a page sends with SAVE_CACHE: a report of its own
SavedResult == [by |-> 0, tokens |-> 1]

\* The instants at which the cache is looked at: around one day and around seven days
\* after the first
CacheTimes ==
  {StartTime + age : age \in {0, 1, 24 * 60 * 60 * 1000 - 1, 24 * 60 * 60 * 1000,
                              CACHE_DURATION - 1, CACHE_DURATION, CACHE_DURATION + 1}}

CacheFrame == UNCHANGED <<activeTasks, lastSaveTimes, session, timers, runs, cacheOps>> /\ UNCHANGED <<planVars, pureVars>>

CacheInit ==
  /\ NoPlan
  /\ NoPure
  /\ NoCache
  /\ activeTasks = NoMap
  /\ lastSaveTimes = NoMap
  /\ session = [present |-> FALSE, tasks |-> NoMap]
  /\ timers = {}
  /\ runs = <<>>
  /\ now = StartTime
  /\ reply = Null

\* case 'CHECK_CACHE'
CheckCache(repoKey) ==
  /\ reply' = CacheReply("CHECK_CACHE", getCachedAnalysis(cache, repoKey, now))
  /\ UNCHANGED <<cache, now>>
  /\ CacheFrame

\* case 'SAVE_CACHE', and cacheAnalysis as onComplete calls it
SaveCache(repoKey, storageFull) ==
  /\ cache' = cacheAnalysis(cache, repoKey, SavedResult, now, storageFull)
  /\ reply' = CacheReply("SAVE_CACHE", Null)
  /\ UNCHANGED now
  /\ CacheFrame

\* case 'CLEAR_CACHE'
ClearCache ==
  /\ cache' = <<>>
  /\ reply' = CacheReply("CLEAR_CACHE", Null)
  /\ UNCHANGED now
  /\ CacheFrame

\* chrome.runtime.onInstalled
Installed ==
  /\ cache' = cleanupExpiredCache(cache, now)
  /\ UNCHANGED <<now, reply>>
  /\ CacheFrame

CacheTick ==
  /\ \E t \in CacheTimes : t > now /\ now' = t
  /\ UNCHANGED <<cache, reply>>
  /\ CacheFrame

CacheNext ==
  \/ \E repoKey \in CacheRepoKeys : CheckCache(repoKey)
  \/ \E repoKey \in CacheRepoKeys, storageFull \in BOOLEAN : SaveCache(repoKey, storageFull)
  \/ ClearCache
  \/ Installed
  \/ CacheTick

SpecCache == CacheInit /\ [][CacheNext]_vars

(***************************************************************************)
(* cacheAnalysis await by await: the invocations under way, each with the  *)
(* copy of the cache object its last storage.get returned                  *)
(***************************************************************************)
CacheOpIds == 1..MaxCacheOps

NewCacheOp(repoKey, result) ==
  [repoKey |-> repoKey, result |-> result, pc |-> "expired-get", local |-> <<>>,
   full |-> FALSE]

OpAt(o, pc) == o \in DOMAIN cacheOps /\ cacheOps[o].pc = pc

RaceFrame ==
  /\ UNCHANGED <<activeTasks, lastSaveTimes, session, timers, runs, now, reply>>
  /\ UNCHANGED <<planVars, pureVars>>

\* The keys whose reports are saved, and an entry that is there before
RaceKeys == {"octo/demo", "octo/other", "octo/third"}

RaceCaches ==
  { <<>>,
    <<CachedAnalysis("octo/old", SavedResult, StartTime)>>,
    <<CachedAnalysis("octo/old", SavedResult, StartTime - CACHE_DURATION)>> }

RaceInit ==
  /\ NoPlan
  /\ NoPure
  /\ activeTasks = NoMap
  /\ lastSaveTimes = NoMap
  /\ session = [present |-> FALSE, tasks |-> NoMap]
  /\ timers = {}
  /\ runs = <<>>
  /\ now = StartTime
  /\ reply = Null
  /\ cache \in RaceCaches
  /\ cacheOps = <<>>

\* cacheAnalysis is called: by onComplete of a run, or for a SAVE_CACHE message
BeginCacheAnalysis(repoKey) ==
  /\ Len(cacheOps) < MaxCacheOps
  /\ \A o \in DOMAIN cacheOps : cacheOps[o].repoKey # repoKey
  /\ cacheOps' = Append(cacheOps, NewCacheOp(repoKey, Text(Len(cacheOps) + 1, 1)))
  /\ UNCHANGED cache
  /\ RaceFrame

\* cleanupExpiredCache: await chrome.storage.local.get(CACHE_KEY)
ExpiredGet(o) ==
  /\ OpAt(o, "expired-get")
  /\ cacheOps' = [cacheOps EXCEPT ![o].local = cache, ![o].pc = "expired-set"]
  /\ UNCHANGED cache
  /\ RaceFrame

\* cleanupExpiredCache: the loop, and the set when an entry was deleted
ExpiredSet(o) ==
  /\ OpAt(o, "expired-set")
  /\ LET cleaned == cleanupExpiredCache(cacheOps[o].local, now)
     IN  /\ cache' = IF Len(cleaned) < Len(cacheOps[o].local) THEN cleaned ELSE cache
         /\ cacheOps' = [cacheOps EXCEPT ![o].local = cleaned, ![o].pc = "bytes"]
  /\ RaceFrame

\* ensureStorageSpace: getBytesInUse answers
BytesInUse(o, storageFull) ==
  /\ OpAt(o, "bytes")
  /\ cacheOps' = [cacheOps EXCEPT ![o].full = storageFull,
                                  ![o].pc = IF storageFull THEN "oldest-get" ELSE "get"]
  /\ UNCHANGED cache
  /\ RaceFrame

\* cleanupOldestCache: await chrome.storage.local.get(CACHE_KEY)
OldestGet(o) ==
  /\ OpAt(o, "oldest-get")
  /\ cacheOps' = [cacheOps EXCEPT ![o].local = cache, ![o].pc = "oldest-set"]
  /\ UNCHANGED cache
  /\ RaceFrame

\* cleanupOldestCache: nothing to do for an empty cache, else the set
OldestSet(o) ==
  /\ OpAt(o, "oldest-set")
  /\ cache' = IF Len(cacheOps[o].local) = 0 THEN cache
              ELSE cleanupOldestCache(cacheOps[o].local)
  /\ cacheOps' = [cacheOps EXCEPT ![o].pc = "get"]
  /\ RaceFrame

\* cacheAnalysis: await chrome.storage.local.get(CACHE_KEY)
EntryGet(o) ==
  /\ OpAt(o, "get")
  /\ cacheOps' = [cacheOps EXCEPT ![o].local = cache, ![o].pc = "set"]
  /\ UNCHANGED cache
  /\ RaceFrame

\* cacheAnalysis: cache[repoKey] = {...}; await chrome.storage.local.set
EntrySet(o) ==
  /\ OpAt(o, "set")
  /\ cache' = setEntry(cacheOps[o].local, cacheOps[o].repoKey, cacheOps[o].result, now)
  /\ cacheOps' = [cacheOps EXCEPT ![o].pc = "done"]
  /\ RaceFrame

RaceNext ==
  \/ \E repoKey \in RaceKeys : BeginCacheAnalysis(repoKey)
  \/ \E o \in CacheOpIds :
       \/ ExpiredGet(o)
       \/ ExpiredSet(o)
       \/ \E storageFull \in BOOLEAN : BytesInUse(o, storageFull)
       \/ OldestGet(o)
       \/ OldestSet(o)
       \/ EntryGet(o)
       \/ EntrySet(o)

SpecRace == RaceInit /\ [][RaceNext]_vars

(***************************************************************************)
(* Claims about the chunk planner                                          *)
(***************************************************************************)
chunkModules == Flatten([k \in 1..Len(chunks) |-> chunks[k].modules])

chunkTokens(chunk) ==
  SumSeq([i \in 1..Len(chunk.modules) |-> moduleTokens(chunk.modules[i])])

availablePerChunk ==
  availablePerChunkOf(maxTokens, estimateBaseContextTokens(skeleton, readmeLengthOf(repoInfo)))

Occurrences(seq, x) == Cardinality({i \in 1..Len(seq) : seq[i] = x})

\* Every directory's records are neighbours in the list
DirsContiguous(modules) ==
  \A i, j, k \in 1..Len(modules) :
    (i < j /\ j < k /\ DirOf(modules[i]) = DirOf(modules[k]))
      => DirOf(modules[j]) = DirOf(modules[i])

FitsOrAlone(chunk) ==
  /\ Len(chunk.modules) > 1 => Quarters(chunkTokens(chunk)) <= availablePerChunk
  /\ \A i \in 1..Len(chunk.modules) :
       Quarters(moduleTokens(chunk.modules[i])) > availablePerChunk => Len(chunk.modules) = 1

\* C2 as stated: in every chunk sequence, a chunk of more than one record sums to
\* at most availablePerChunk, and an oversized record is alone in its chunk
C2_ChunksWithinBudget ==
  planPc = "planned" => \A k \in 1..Len(chunks) : FitsOrAlone(chunks[k])

\* C2 amended: the same, for plans made with availablePerChunk > 0; every record
\* is in some chunk whatever the budget
C2_ChunksWithinPositiveBudget ==
  planPc = "planned" =>
    /\ availablePerChunk > 0 => \A k \in 1..Len(chunks) : FitsOrAlone(chunks[k])
    /\ \A i \in 1..Len(skeleton.modules) :
         \E k \in 1..Len(chunks) : Occurrences(chunks[k].modules, skeleton.modules[i]) = 1

\* A plan that holds a chunk of several records and a chunk of one oversized record
C2_Witness ==
  /\ planPc = "planned"
  /\ availablePerChunk > 0
  /\ \E k \in 1..Len(chunks) : Len(chunks[k].modules) > 1
  /\ \E k \in 1..Len(chunks) :
       Len(chunks[k].modules) = 1 /\ Quarters(chunkTokens(chunks[k])) > availablePerChunk

\* C8: when needsChunking returned false, the single-shot rendering of the
\* skeleton, measured with estimateTokens, fits within the budget
C8_NoChunkingMeansRenderFits ==
  (planPc = "rendered" /\ ~needs) => rendered <= maxTokens


RECURSIVE TokensOfAll(_)
TokensOfAll(modules) ==
  IF modules = <<>> THEN 0
  ELSE estimateTokens(formatModuleForEstimation(Head(modules))) + TokensOfAll(Tail(modules))

\* Four times (base estimate + module estimates + 2000) and four times the budget
TotalWithBufferQ ==
  estimateBaseContextTokens(skeleton, readmeLengthOf(repoInfo))
    + 4 * TokensOfAll(skeleton.modules) + 4 * 2000

\* C21: needsChunking(S, B, readmeLength) is true exactly when the base estimate plus
\* the estimates of all formatted modules plus 2000 is strictly greater than B
C21_NeedsChunkingIffOverBudget ==
  planPc # "input" /\ planPc # "off" => (needs <=> TotalWithBufferQ > 4 * maxTokens)

\* needsChunking answered no for a skeleton with modules whose total, buffer included,
\* is the budget itself
C21_Witness ==
  /\ planPc = "checked"
  /\ Len(skeleton.modules) > 0
  /\ TotalWithBufferQ = 4 * maxTokens
  /\ ~needs

Degraded == availablePerChunk <= 0 /\ Len(skeleton.modules) > 0

\* C22: when budget - baseOverhead - 1500 <= 0 and the skeleton has a module,
\* splitIntoChunks returns one chunk holding every module in original order, with
\* chunkIndex 0, totalChunks 1 and isLast true
C22_DegradedPlanIsOneChunk ==
  planPc = "planned" /\ Degraded =>
    chunks = <<[modules |-> skeleton.modules, chunkIndex |-> 0, totalChunks |-> 1,
                isLast |-> TRUE]>>

\* A degraded plan of a skeleton whose directories are interleaved
C22_Witness ==
  /\ planPc = "planned"
  /\ Degraded
  /\ Len(skeleton.modules) >= 3
  /\ ~DirsContiguous(skeleton.modules)
  /\ Len(chunks) = 1

\* C23: in every returned sequence the k-th chunk (from zero) has chunkIndex k, every
\* chunk has totalChunks equal to the length of the sequence, and isLast is true for
\* the last chunk and false for every other
C23_ChunkMetadata ==
  planPc = "planned" =>
    \A k \in 1..Len(chunks) :
      /\ chunks[k].chunkIndex = k - 1
      /\ chunks[k].totalChunks = Len(chunks)
      /\ chunks[k].isLast = (k = Len(chunks))

\* A plan of three chunks or more
C23_Witness == planPc = "planned" /\ Len(chunks) >= 3

\* Where a record, and the first record of its directory, stand in S.modules
IndexIn(modules, module) == CHOOSE i \in 1..Len(modules) : modules[i] = module

FirstOfDir(modules, module) ==
  CHOOSE i \in 1..Len(modules) :
    /\ DirOf(modules[i]) = DirOf(module)
    /\ \A j \in 1..(i - 1) : DirOf(modules[j]) # DirOf(module)

\* The concatenation is S.modules ordered by first occurrence of the directory, then
\* by place in S.modules: an order fixed by the paths and their order alone
GroupedOrder ==
  /\ Len(chunkModules) = Len(skeleton.modules)
  /\ \A i \in 1..Len(chunkModules) : Occurrences(skeleton.modules, chunkModules[i]) = 1
  /\ \A i, j \in 1..Len(chunkModules) :
       i < j =>
         LET a == chunkModules[i]
             b == chunkModules[j]
         IN  \/ FirstOfDir(skeleton.modules, a) < FirstOfDir(skeleton.modules, b)
             \/ /\ DirOf(a) = DirOf(b)
                /\ IndexIn(skeleton.modules, a) < IndexIn(skeleton.modules, b)

\* C24: in the concatenated chunk order the records of one directory are contiguous,
\* directories come in order of first occurrence in S.modules, records of a directory
\* keep their relative order, and nothing else decides the order
C24_ConcatIsGroupedByDirectory ==
  planPc = "planned" => GroupedOrder

\* C24 amended: the same for every plan made with budget - baseOverhead - 1500 > 0
C24_PackedConcatIsGroupedByDirectory ==
  planPc = "planned" /\ availablePerChunk > 0 => GroupedOrder

\* A packed plan of several chunks of a skeleton whose directories are interleaved
C24_Witness ==
  /\ planPc = "planned"
  /\ availablePerChunk > 0
  /\ ~DirsContiguous(skeleton.modules)
  /\ Len(chunks) >= 2
  /\ DirsContiguous(chunkModules)

\* Every module of the skeleton is estimated at 3000 tokens, give or take 150
AboutThreeThousandEach ==
  \A i \in 1..Len(skeleton.modules) :
    moduleTokens(skeleton.modules[i]) \in 2850..3150

ScenarioB ==
  /\ Len(skeleton.modules) = 40
  /\ Cardinality({DirOf(skeleton.modules[i]) : i \in 1..40}) = 5
  /\ AboutThreeThousandEach
  /\ maxTokens = 25600

\* C26: for a skeleton of 40 modules in 5 directories, each of about 3000 estimated
\* tokens, and a budget of 25600, needsChunking is true and splitIntoChunks returns
\* at least 5 chunks in directory-grouped order
C26_ScenarioB ==
  ScenarioB =>
    /\ planPc \in {"checked", "planned"} => needs
    /\ planPc = "planned" => Len(chunks) >= 5 /\ GroupedOrder

\* C26 amended: the same for a skeleton whose base overhead leaves room under the
\* budget, budget - baseOverhead - 1500 > 0
C26_ScenarioBWithRoom ==
  ScenarioB /\ availablePerChunk > 0 =>
    /\ planPc \in {"checked", "planned"} => needs
    /\ planPc = "planned" => Len(chunks) >= 5 /\ GroupedOrder

\* The plan of a scenario skeleton whose directories are interleaved
C26_Witness ==
  /\ ScenarioB
  /\ availablePerChunk > 0
  /\ planPc = "planned"
  /\ needs
  /\ ~DirsContiguous(skeleton.modules)
  /\ Len(chunks) >= 5

\* Estimated cost of the modules text the round prompt of a chunk carries
renderedChunkTokens(chunk) == estimateTokens(formatModulesForChunk(chunk.modules))

\* C30: for every chunk, the modules text placed in the round prompt
\* (formatModulesForChunk) has an estimated token cost no greater than the running
\* estimate of the planner for that chunk, the sum of
\* estimateTokens(formatModuleForEstimation(m)) over the chunk's modules
C30_RenderingWithinEstimate ==
  \A k \in 1..Len(chunks) : renderedChunkTokens(chunks[k]) <= chunkTokens(chunks[k])

\* What the model finds instead: the rendering adds a line break after every module
\* and one between modules, 2m - 1 characters for m modules, that the planner does
\* not count
C30_RenderingWithinEstimateAndBreaks ==
  \A k \in 1..Len(chunks) :
    renderedChunkTokens(chunks[k])
      <= chunkTokens(chunks[k]) + (2 * Len(chunks[k].modules) - 1 + 3) \div 4

(***************************************************************************)
(* Claims about the analysis cache                                         *)
(***************************************************************************)
TwentyFourHours == 24 * 60 * 60 * 1000

\* What CHECK_CACHE and cleanupExpiredCache do under an entry lifetime
CacheLivesFor(lifetime) ==
  /\ \A repoKey \in CacheRepoKeys :
       CheckCache(repoKey) =>
         /\ reply'.data \in {Null, Cached(cache, repoKey)}
         /\ reply'.data # Null <=>
              /\ Cached(cache, repoKey) # Null
              /\ now - Cached(cache, repoKey).timestamp < lifetime
  /\ Installed =>
       cache' = SelectSeq(cache, LAMBDA entry : now - entry.timestamp < lifetime)

\* C28: CHECK_CACHE for a repository key returns a cached analysis only if that entry
\* was stored less than 24 hours before the check, an entry aged 24 hours or more is
\* never returned, and cleanupExpiredCache removes exactly the entries aged 24 hours
\* or more and keeps all others
C28_TwentyFourHourCache == [][CacheLivesFor(TwentyFourHours)]_vars

\* What the model finds instead: the same with CACHE_DURATION, seven days, as lifetime
C28_CacheDurationCache == [][CacheLivesFor(CACHE_DURATION)]_vars

(***************************************************************************)
(* Claims about the round orchestrator                                     *)
(***************************************************************************)
RoundCalls(run) == SelectSeq(run.calls, LAMBDA call : call.kind = "round")

HasEvent(run, cb) == \E e \in 1..Len(run.events) : run.events[e].cb = cb

\* C3: in a chunked run, the estimated cost of every round prompt (instructions,
\* digest of the prior summaries, project metadata, the chunk's modules) and of the
\* final report prompt is at most the budget of the configured model
C3_EveryPromptWithinBudget ==
  \A r \in DOMAIN runs :
    runs[r].chunked =>
      \A j \in 1..Len(runs[r].calls) :
        runs[r].calls[j].tokens <= getModelContextLimit(runs[r].calls[j].model).n

\* The round calls made so far were issued one after the other, each with the digest
\* of the summaries of all rounds before it
RoundsInOrder(run) ==
  LET rounds == RoundCalls(run)
  IN  /\ Len(rounds) \in {Len(run.summaries), Len(run.summaries) + 1}
      /\ run.pc = "round" => Len(rounds) = Len(run.summaries) + 1
      /\ Len(rounds) <= Len(run.chunks)
      /\ \A j \in 1..Len(rounds) :
           /\ rounds[j].round = j - 1
           /\ rounds[j].digestOf = SubSeq(run.summaries, 1, j - 1)
           /\ rounds[j].previousSummaries =
                IF j = 1 THEN FirstChunkMarker
                ELSE formatChunkSummaryForContext(SubSeq(run.summaries, 1, j - 1))

\* C4: a chunked run over n chunks whose backend calls all succeed makes exactly n
\* non-streaming calls, one after the other (round i+1 is issued after the summary of
\* round i was appended), and the prompt of round i carries the digest of exactly the
\* summaries of rounds 0..i-1, the first-chunk marker when i = 0
C4_RoundsSequentialWithDigest ==
  \A r \in DOMAIN runs :
    runs[r].chunked =>
      /\ RoundsInOrder(runs[r])
      /\ (runs[r].pc # "round" /\ ~HasEvent(runs[r], "onError"))
           => Len(RoundCalls(runs[r])) = Len(runs[r].chunks)

\* C5: whatever the backend returns for a round, a summary for that round is appended,
\* an all-empty one when the text is not JSON or is JSON null or a non-object, and the
\* run does not fail of it
C5_MalformedResponseDegrades ==
  \A r \in DOMAIN runs :
    LET run == runs[r]
    IN  /\ Len(run.summaries) = Len(run.responses)
        /\ \A i \in 1..Len(run.responses) :
             (~run.responses[i].json \/ run.responses[i].value.t # "object")
               => run.summaries[i] = EmptySummary(i - 1)
        /\ run.error # Err("TypeError")

\* The non-streaming call of the run's latest round failed
RoundFailed(run) ==
  /\ HasEvent(run, "onError")
  /\ Len(run.calls) > 0
  /\ run.calls[Len(run.calls)].kind = "round"

\* C6: when the non-streaming call of a round fails, the error callback is given the
\* error once, the run and its task are failed with that message, the call is not
\* repeated, no later round and no streaming call is made, and the completion
\* callback is not invoked
C6_RoundFailureFailsRun ==
  \A r \in DOMAIN runs :
    LET run == runs[r]
    IN  RoundFailed(run) =>
          /\ run.pc \in {"failing", "failed"}
          /\ Len(run.events) = 1
          /\ run.error = Err(run.events[1].message)
          /\ run.events[1].message \in RunEnv.backendErrors
          /\ activeTasks[run.key].stage = "error"
          /\ activeTasks[run.key].error = run.error
          /\ Len(RoundCalls(run)) = Len(run.summaries) + 1
          /\ \A j \in 1..Len(run.calls) :
               run.calls[j].kind = "round" /\ run.calls[j].round = j - 1

\* A run whose second round failed after its first round had succeeded
C6_Witness ==
  \E r \in DOMAIN runs :
    /\ RoundFailed(runs[r])
    /\ Len(runs[r].summaries) >= 1
    /\ runs[r].pc = "failed"

\* C7: the single-shot analyzer is used if and only if needsChunking returned false;
\* whenever it returned true the chunked path is taken
C7_SingleShotIffNoChunking ==
  \A r \in DOMAIN runs :
    (runs[r].chunked \/ Len(runs[r].calls) > 0) =>
      /\ runs[r].chunked <=> runs[r].useChunking
      /\ (runs[r].calls # <<>> /\ runs[r].calls[1].kind = "single") <=> ~runs[r].useChunking

\* C13: a run whose skeleton has no analyzable module and that needs chunking makes no
\* backend call and ends in error with the message that there is nothing to analyze
C13_NoModulesFailsWithoutCalls ==
  \A r \in DOMAIN runs :
    LET run == runs[r]
    IN  (run.useChunking /\ run.skeleton.modules = <<>>
         /\ run.pc \notin {"settings", "repoInfo", "extract", "configFiles", "files",
                            "analyzing"})
          => /\ run.calls = <<>>
             /\ run.pc \in {"failing", "failed"}
             /\ run.error = Err("No modules to analyze")

\* Two runs were given the same skeleton, repository and settings
SameInputs(r1, r2) ==
  /\ runs[r1].chunked /\ runs[r2].chunked
  /\ runs[r1].skeleton = runs[r2].skeleton
  /\ runs[r1].profile = runs[r2].profile
  /\ runs[r1].settings = runs[r2].settings

\* The calls of two runs agree as far as the responses they were given agree
SamePrompts(r1, r2) ==
  \A j \in 1..Len(runs[r1].calls) :
    (j <= Len(runs[r2].calls)
     /\ \A i \in 1..(j - 1) :
          i <= Len(runs[r1].responses) /\ i <= Len(runs[r2].responses)
          /\ runs[r1].responses[i] = runs[r2].responses[i])
      => runs[r1].calls[j] = runs[r2].calls[j]

\* C14: two chunked runs with the same skeleton, budget and backend responses have the
\* same chunk boundaries and the same prompts, and the chunk count checkNeedsChunking
\* reported is the number of rounds analyzeWithChunking executes
C14_SamePlanSameRounds ==
  /\ \A r1, r2 \in DOMAIN runs :
       SameInputs(r1, r2) => runs[r1].chunks = runs[r2].chunks /\ SamePrompts(r1, r2)
  /\ \A r \in DOMAIN runs :
       runs[r].chunked =>
         /\ Len(runs[r].chunks) = runs[r].estimatedChunks
         /\ (runs[r].pc # "round" /\ ~HasEvent(runs[r], "onError"))
              => Len(RoundCalls(runs[r])) = runs[r].estimatedChunks

\* The streaming call of the run has been issued and has ended
StreamEnded(run) ==
  /\ run.calls # <<>>
  /\ run.calls[Len(run.calls)].kind # "round"
  /\ run.pc \in {"completing", "done", "failing", "failed"}

\* C15: a streaming call that has ended has delivered exactly one terminal event,
\* onComplete or onError, also when the HTTP response was not a success
C15_OneTerminalEvent ==
  \A r \in DOMAIN runs :
    StreamEnded(runs[r]) =>
      /\ Len(runs[r].events) = 1
      /\ runs[r].events[1].cb \in {"onComplete", "onError"}

\* The chunked runs that have a plan of at least one chunk
Planned(r) == runs[r].chunked /\ Len(runs[r].chunks) > 0

\* Rounds of run r that have begun: one more than the responses processed, up to n
RoundsBegun(r) ==
  IF Len(runs[r].summaries) < Len(runs[r].chunks) THEN Len(runs[r].summaries) + 1
  ELSE Len(runs[r].chunks)

AllRoundsReturned(r) == Len(runs[r].summaries) = Len(runs[r].chunks)

\* C25: in a chunked run over n chunks the progress events are one 'analyzing' event
\* {currentChunk: i+1, totalChunks: n} per round i, in increasing i, each emitted
\* before the response of round i is processed, then one 'generating' event after
\* the last round and before the streaming call; currentChunk stays in 1..n and
\* never decreases
C25_ProgressEvents ==
  \A r \in DOMAIN runs :
    Planned(r) =>
      LET run == runs[r]
          n == Len(run.chunks)
          ev == run.progressEvents
      IN  /\ Len(ev) = RoundsBegun(r) + (IF AllRoundsReturned(r) THEN 1 ELSE 0)
          /\ \A i \in 1..RoundsBegun(r) :
               ev[i] = [currentChunk |-> i, totalChunks |-> n, stage |-> "analyzing"]
          /\ AllRoundsReturned(r) =>
               ev[n + 1] = [currentChunk |-> n, totalChunks |-> n, stage |-> "generating"]
          /\ (\E c \in 1..Len(run.calls) : run.calls[c].kind = "final") => AllRoundsReturned(r)
          /\ \A i \in 1..Len(ev) : ev[i].currentChunk \in 1..n
          /\ \A i, j \in 1..Len(ev) : i < j => ev[i].currentChunk <= ev[j].currentChunk

\* A run of two chunks or more that has made its streaming call
C25_Witness ==
  \E r \in DOMAIN runs :
    /\ Planned(r)
    /\ Len(runs[r].chunks) >= 2
    /\ runs[r].pc = "stream"
    /\ Len(runs[r].progressEvents) = Len(runs[r].chunks) + 1

\* The summaries of run r are those of its responses so far, the k-th numbered k
SummariesNumbered(r) ==
  /\ Len(runs[r].summaries) = Len(runs[r].responses)
  /\ Len(runs[r].summaries) <= Len(runs[r].chunks)
  /\ \A k \in 1..Len(runs[r].summaries) :
       /\ runs[r].summaries[k].chunkIndex = k - 1
       /\ runs[r].summaries[k].chunkIndex = runs[r].chunks[k].chunkIndex

\* A step adds at most one summary to run r, at the end, and changes none
SummariesKept(r) ==
  /\ Len(runs'[r].summaries) \in {Len(runs[r].summaries), Len(runs[r].summaries) + 1}
  /\ SubSeq(runs'[r].summaries, 1, Len(runs[r].summaries)) = runs[r].summaries

\* C27: the summaries accumulate in chunk order and are never changed afterwards:
\* after round i the list has length i+1, its k-th element has chunkIndex k, taken
\* from the chunk and not from the response, and the elements before it are what
\* they were
C27_SummariesAccumulate ==
  /\ [](\A r \in DOMAIN runs : SummariesNumbered(r))
  /\ [][\A r \in DOMAIN runs : SummariesKept(r)]_vars

\* A run past its second round whose second response named a chunkIndex of its own
C27_Witness ==
  \E r \in DOMAIN runs :
    /\ Len(runs[r].summaries) >= 2
    /\ runs[r].responses[2].json
    /\ Get(runs[r].responses[2].value, "chunkIndex") = JNum(7)
    /\ runs[r].summaries[2].chunkIndex = 1

\* The backend calls of a chunked run over n chunks are a prefix of round 0, round 1,
\* ..., round n-1, the streaming call
CallsInStateOrder(run) ==
  /\ Len(run.calls) <= Len(run.chunks) + 1
  /\ \A j \in 1..Len(run.calls) :
       IF j <= Len(run.chunks)
         THEN run.calls[j].kind = "round" /\ run.calls[j].round = j - 1
         ELSE run.calls[j].kind = "final"

SynthesisCalls(run) == SelectSeq(run.calls, LAMBDA call : call.kind = "final")

\* All n rounds of the run have returned a response, none a backend error
AllRoundsAnswered(run) == Len(run.responses) = Len(run.chunks)

StateOrder(run, answered) ==
  /\ CallsInStateOrder(run)
  /\ Len(SynthesisCalls(run)) = (IF answered THEN 1 ELSE 0)
  /\ Len(SynthesisCalls(run)) = 1 => AllRoundsAnswered(run)
  /\ HasEvent(run, "onComplete") =>
       /\ Len(SynthesisCalls(run)) = 1
       /\ StreamEnded(run)
       /\ run.pc \in {"completing", "done"}

\* C29: in every chunked run the calls happen in the order round 0, round 1, ...,
\* round n-1, then the streaming synthesis call; the synthesis call is made exactly
\* once, and only, after all n rounds have returned without backend error, and the
\* completion callback fires only after the synthesis stream has ended
C29_OrchestratorStateOrder ==
  \A r \in DOMAIN runs :
    Planned(r) => StateOrder(runs[r], AllRoundsAnswered(runs[r]))

\* The same of the runs that do not end in the TypeError of C5
C29_StateOrderBarringTypeError ==
  \A r \in DOMAIN runs :
    Planned(r) =>
      StateOrder(runs[r], AllRoundsAnswered(runs[r]) /\ runs[r].error # Err("TypeError"))

(***************************************************************************)
(* Claims about the registry of tasks                                      *)
(***************************************************************************)
\* The runs whose backend call is under way
AtBackend == {r \in DOMAIN runs : runs[r].pc \in {"round", "stream"}}

\* C9: while a run of a repository key has not ended, no second sequence of backend
\* calls is started for that key: of the runs of one key at most one has a backend
\* call under way, also after the first was cancelled or marked timed out
C9_OneCallSequencePerKey ==
  \A r1, r2 \in AtBackend : runs[r1].key = runs[r2].key => r1 = r2

\* C10: after any sequence of start, cancel and timeout events the number of runs
\* that are issuing backend calls never exceeds the ceiling of 3
C10_CeilingOnRunsAtBackend ==
  Cardinality(AtBackend) <= MAX_CONCURRENT_TASKS

\* Run r was cancelled while under way: its task was deleted, or another run of its
\* key has been started since (a START is accepted only once the task is gone)
Cancelled(r) ==
  /\ runs[r].pc \notin {"completing", "done", "failing", "failed"}
  /\ \/ runs[r].key \notin DOMAIN activeTasks
     \/ \E r2 \in DOMAIN runs : r2 > r /\ runs[r2].key = runs[r].key

\* C11: after CANCEL_ANALYSIS for its key a run starts no further chunk round (issues
\* no further backend call) and none of its steps updates the task state any more
C11_CancelledRunStops ==
  [][\A r \in DOMAIN runs :
       Cancelled(r) =>
         /\ Len(runs'[r].calls) = Len(runs[r].calls)
         /\ runs'[r] # runs[r] => activeTasks' = activeTasks]_vars

\* The task of key k has been under way for more than ANALYSIS_TIMEOUT
Overdue(k) ==
  /\ Keys[k] \in DOMAIN activeTasks
  /\ Running(activeTasks[Keys[k]])
  /\ now - activeTasks[Keys[k]].startedAt > ANALYSIS_TIMEOUT

\* C12: a run that has not reached a terminal stage within the window of 5 minutes
\* is moved to a terminal stage, also when the backend hangs and nobody polls
C12_OverdueRunIsFailed ==
  \A k \in 1..Len(Keys) : Overdue(k) ~> ~Overdue(k)

\* The stage session storage holds for every task is the one in memory
StagePersisted ==
  \A k \in DOMAIN activeTasks :
    /\ session.present
    /\ k \in DOMAIN session.tasks
    /\ session.tasks[k].stage = activeTasks[k].stage

\* A step of run r that brings only incremental updates: it is not one of the steps
\* that set a stage (after getRepoInfo, after extractCodeSkeleton), the run does not
\* end in it, and no task is added or removed
IncrementalStep(r) ==
  /\ runs'[r] # runs[r]
  /\ runs[r].pc \notin {"repoInfo", "files"}
  /\ runs'[r].pc \notin {"completing", "done", "failing", "failed"}
  /\ DOMAIN activeTasks' = DOMAIN activeTasks

\* C16: every stage transition is in session storage as soon as the step that made
\* it is over, however recent the last write, while an incremental update writes to
\* session storage only when THROTTLE_INTERVAL has passed since its task's last
\* throttled write
C16_StageSavedUpdatesThrottled ==
  /\ []StagePersisted
  /\ [][\A r \in DOMAIN runs :
          (IncrementalStep(r) /\ session' # session)
            => \/ runs[r].key \notin DOMAIN lastSaveTimes
               \/ now - lastSaveTimes[runs[r].key] >= THROTTLE_INTERVAL]_vars

\* A task under analysis whose stage is in session storage while its streamed text,
\* held back by the throttle, is not
C16_Witness ==
  \E k \in DOMAIN activeTasks :
    /\ activeTasks[k].stage = "analyzing"
    /\ StagePersisted
    /\ k \in DOMAIN lastSaveTimes
    /\ session.tasks[k].analysis # activeTasks[k].analysis

\* The keys whose task record is added, removed or changed by the step
TouchedKeys ==
  {k \in DOMAIN activeTasks \cup DOMAIN activeTasks' :
     \/ k \notin DOMAIN activeTasks
     \/ k \notin DOMAIN activeTasks'
     \/ activeTasks'[k] # activeTasks[k]}

\* C17: every step of a run and every start, cancel or state query belongs to one key
\* and leaves the task record of every other key unchanged in all fields
C17_StepTouchesOneKey ==
  [][Cardinality(TouchedKeys) <= 1]_vars


\* A task that is terminal before the step, and still registered after it, keeps its
\* stage, its error and its analysis text
TerminalKept(taskId) ==
  (/\ taskId \in DOMAIN activeTasks
   /\ activeTasks[taskId].stage \in {"complete", "error"}
   /\ taskId \in DOMAIN activeTasks')
    => /\ activeTasks'[taskId].stage = activeTasks[taskId].stage
       /\ activeTasks'[taskId].error = activeTasks[taskId].error
       /\ activeTasks'[taskId].analysis = activeTasks[taskId].analysis

\* C31: once a task's stage is 'complete' or 'error', also an error set by the timeout
\* check, no later callback, update or save of its run changes the task's stage, error
\* or analysis text: a task marked timed out never becomes 'complete', a completed
\* task never becomes 'error'.  (A step that starts a new run is no step of that run.)
C31_TerminalStagesAbsorbing ==
  [][Len(runs') = Len(runs) => \A k \in 1..Len(Keys) : TerminalKept(Keys[k])]_vars

\* The same of the tasks that did not become terminal by the timeout check
C31_TerminalByRunAbsorbing ==
  [][Len(runs') = Len(runs) =>
       \A k \in 1..Len(Keys) :
         (Keys[k] \in DOMAIN activeTasks
          /\ activeTasks[Keys[k]].error # Err("Analysis timed out. Please try again."))
           => TerminalKept(Keys[k])]_vars

\* A later run of the same key was started: the task of run r was cancelled, or had
\* ended, and START_ANALYSIS registered a new one
Superseded(r) == \E later \in DOMAIN runs : later > r /\ runs[later].key = runs[r].key

TimedOut(taskId) ==
  /\ taskId \in DOMAIN activeTasks
  /\ activeTasks[taskId].error = Err("Analysis timed out. Please try again.")

\* The cache changes only in the tail of onComplete, which stores the full final text
\* of its run under the run's key
WrittenOnComplete ==
  cache' # cache =>
    \E r \in DOMAIN runs :
      /\ runs[r].pc = "completing"
      /\ runs'[r].pc = "done"
      /\ Cached(cache', runs[r].key) = CachedAnalysis(runs[r].key, Text(r, runs[r].fullText), now)
      /\ \A i \in 1..Len(cache') : cache'[i].repoKey # runs[r].key => cache'[i] = Cached(cache, cache'[i].repoKey)

\* The run that enters onComplete past its guard, and so goes on to cacheAnalysis, was
\* not marked timed out (timedOut) and not cancelled and started again (superseded)
EntersOnComplete(r, timedOut, superseded) ==
  (runs[r].pc = "stream" /\ runs'[r].pc = "completing") =>
    /\ ~timedOut
    /\ ~superseded
    /\ activeTasks'[runs[r].key].stage = "complete"
    /\ activeTasks'[runs[r].key].analysis = Text(r, runs[r].fullText)

\* C32: the pipeline writes an entry to the analysis cache only when a run reaches
\* stage 'complete', and the entry holds that run's full final text; a run that ended
\* in error, timed out or was cancelled writes no cache entry; no chunk and no
\* ChunkSummary is persisted
C32_OnlyCompletedReportsDurable ==
  /\ [](\A i \in 1..Len(cache) : DOMAIN cache[i] = {"repoKey", "result", "timestamp"})
  /\ [][/\ WrittenOnComplete
        /\ \A r \in DOMAIN runs :
             EntersOnComplete(r, TimedOut(runs[r].key), Superseded(r))]_vars

\* The same with the runs marked timed out, and those cancelled and started again, set
\* aside
C32_DurableBarringTimeoutAndCancel ==
  /\ [](\A i \in 1..Len(cache) : DOMAIN cache[i] = {"repoKey", "result", "timestamp"})
  /\ [][/\ WrittenOnComplete
        /\ \A r \in DOMAIN runs :
             TimedOut(runs[r].key) \/ Superseded(r) \/ EntersOnComplete(r, FALSE, FALSE)]_vars

\* Run r has a call pending and a later run of its key was started: the task of r was
\* cancelled, or marked timed out, and START_ANALYSIS registered a new task
SupersededWhilePending(r) ==
  /\ runs[r].pc \notin {"completing", "done", "failing", "failed"}
  /\ Superseded(r)

\* What a run writes of a task record (lastUpdatedAt is stamped by every save)
Written(task) ==
  [stage |-> task.stage, progress |-> task.progress, analysis |-> task.analysis,
   repoInfo |-> task.repoInfo, chunkProgress |-> task.chunkProgress, error |-> task.error]

StageRank(stage) ==
  CASE stage = "fetching" -> 0
    [] stage = "extracting" -> 1
    [] stage = "analyzing" -> 2
    [] OTHER -> 3

OldRunLeavesTask(r) ==
  (/\ SupersededWhilePending(r)
   /\ runs'[r] # runs[r]
   /\ runs[r].key \in DOMAIN activeTasks
   /\ runs[r].key \in DOMAIN activeTasks')
    => Written(activeTasks'[runs[r].key]) = Written(activeTasks[runs[r].key])

StageMovesForward ==
  \A taskId \in DOMAIN activeTasks \cap DOMAIN activeTasks' :
    (\E r \in DOMAIN runs : runs[r].key = taskId /\ Superseded(r))
      => StageRank(activeTasks'[taskId].stage) >= StageRank(activeTasks[taskId].stage)

\* C33: when a run of key K is cancelled, or marked timed out, while its calls are
\* pending and a new run of K is then started, no later step of the old run changes
\* the task record of the new run, and the stage of a task never moves backwards
C33_SupersededRunWritesNothing ==
  [][/\ \A r \in DOMAIN runs : OldRunLeavesTask(r)
     /\ (Len(runs') = Len(runs)) => StageMovesForward]_vars

\* C34: in every run, for every provider and every stored model setting, none
\* included, the model whose context limit checkNeedsChunking uses is the model the
\* single-shot or chunked backend calls of the run are sent to
C34_DecisionAndCallsUseOneModel ==
  \A r \in DOMAIN runs :
    \A j \in 1..Len(runs[r].calls) :
      runs[r].calls[j].model = modelToUse(runs[r].settings)

\* The same of the chunked runs, and of the runs with a stored model or the provider
\* 'claude'
C34_OneModelWhenChunkedOrStored ==
  \A r \in DOMAIN runs :
    \A j \in 1..Len(runs[r].calls) :
      (runs[r].chunked \/ runs[r].settings.model # "" \/ runs[r].settings.aiProvider = "claude")
        => runs[r].calls[j].model = modelToUse(runs[r].settings)

\* C35: when availablePerChunk > 0 a chunk is closed only when the next record does
\* not fit: for every two consecutive chunks k and k+1 the token estimate of chunk k
\* plus the estimate of the first record of chunk k+1 is strictly greater than
\* availablePerChunk
C35_ChunksAreGreedilyMaximal ==
  availablePerChunk > 0 =>
    \A k \in 1..(Len(chunks) - 1) :
      Quarters(chunkTokens(chunks[k]) + moduleTokens(chunks[k + 1].modules[1]))
        > availablePerChunk

\* A plan of two chunks or more, made with room for modules, whose first chunk holds
\* more than one record
C35_Witness ==
  /\ planPc = "planned"
  /\ availablePerChunk > 0
  /\ Len(chunks) >= 2
  /\ Len(chunks[1].modules) >= 2

\* C36: every chunk splitIntoChunks returns holds at least one record, and it returns
\* the empty list exactly when the skeleton has no modules, for every budget, a
\* non-positive availablePerChunk included
C36_NoEmptyChunks ==
  planPc = "planned" =>
    /\ \A k \in 1..Len(chunks) : Len(chunks[k].modules) >= 1
    /\ Len(chunks) = 0 <=> Len(skeleton.modules) = 0

\* A skeleton without modules has been planned with nothing left of the budget
C36_Witness ==
  /\ planPc = "planned"
  /\ availablePerChunk <= 0
  /\ Len(skeleton.modules) = 0
  /\ chunks = <<>>

\* The cacheAnalysis calls have all finished and none found the storage full
AllSavedWithRoom ==
  /\ Len(cacheOps) >= 2
  /\ \A o \in DOMAIN cacheOps : cacheOps[o].pc = "done" /\ ~cacheOps[o].full

\* C38: if two cacheAnalysis operations for different repository keys run
\* concurrently, then after both have finished the cache holds the entries of both
\* keys, in every interleaving of their storage reads and writes (with room in the
\* storage: nothing is evicted)
C38_NoLostCacheUpdate ==
  AllSavedWithRoom =>
    \A o \in DOMAIN cacheOps :
      Cached(cache, cacheOps[o].repoKey)
        = CachedAnalysis(cacheOps[o].repoKey, cacheOps[o].result, now)

\* The task of run r is terminal, or was cancelled
Settled(r) ==
  /\ r \in DOMAIN runs
  /\ \/ runs[r].key \notin DOMAIN activeTasks
     \/ activeTasks[runs[r].key].stage \in {"complete", "error"}

\* C39: if every call to the repository source and to the backend returns or fails,
\* every task created by START_ANALYSIS and not cancelled reaches stage 'complete'
\* or 'error', on the single-shot and on the chunked path, for every outcome of
\* every call
C39_EveryStartedRunTerminates ==
  \A r \in RunIds : (r \in DOMAIN runs) ~> Settled(r)

\* A chunked run whose task is still under way, and one whose rounds and stream all
\* returned and whose task is complete
C39_Witness ==
  \E r \in DOMAIN runs :
    /\ runs[r].chunked
    /\ Len(runs[r].chunks) >= 2
    /\ runs[r].pc = "done"
    /\ Settled(r)
    /\ activeTasks[runs[r].key].stage = "complete"

====
